---------------------------- MODULE Spec2Model ----------------------------
(***************************************************************************)
(* A model of the PrologScript runtime: the causal model and its           *)
(* counterfactual transaction, the facade's reality table, knowledge base  *)
(* and rule set, the query/resolution engine and the unifier.              *)
(*                                                                         *)
(* JavaScript values are modelled as follows.  null and undefined are the  *)
(* strings NULL and UNDEFINED.  A Map is a function on the set of its keys *)
(* when only has/get/set are used on it, and a sequence of <<key, value>>  *)
(* pairs in insertion order when the code iterates over it.  A colon-      *)
(* joined key such as 'hasA:alice:parent' is the sequence of its segments  *)
(* (names never contain ':'), so that split(':') is the identity on them.  *)
(***************************************************************************)
EXTENDS Integers, Sequences, FiniteSets, TLC

VARIABLES
    heap,           \* the Reality objects created so far; a reference is an index
    realities,      \* PrologScript.realities: name -> reference to a Reality
    activeReality,  \* PrologScript.activeReality: a reference, or NoReality (null)
    knowledgeBase,  \* PrologScript.knowledgeBase: <<key, value>>* (insertion order)
    queue,          \* _propagateEffects: the BFS queue of the call in progress
    visited,        \* _propagateEffects: the visited set of the call in progress
    pc,             \* "idle", or "propagate" while intervene() is inside its loop
    applied,        \* per node: times its outgoing edges were walked in this call
    lastCf,         \* outcome of the createCounterfactual()...compute() just made
    calls,          \* number of facade calls made so far (bounded by MaxCalls)
    rules,          \* PrologScript.rules: <<head, body>>* (insertion order)
    context,        \* PrologScript.context: the current UnificationContext
    written,        \* per Reality: the facts and rules written while it was active,
                    \* and those written while it was not
    last,           \* the query, infer or unify call just made, and its outcome
    writes,         \* number of isA / hasA / addRule calls made so far
    asked,          \* number of query / infer / unify calls made so far
    frames,         \* the activations of query on the call stack, oldest first,
                    \* while a query is followed call by call
    trail           \* history of the choice points of context: the alternatives
                    \* recorded and handed out, and the bindings at each creation

causalVars == <<queue, visited, pc, applied, lastCf>>
engineVars == <<rules, context, last, asked>>

vars == <<heap, realities, activeReality, knowledgeBase, queue, visited, pc, applied,
          lastCf, calls, rules, context, written, last, writes, asked, frames, trail>>

-----------------------------------------------------------------------------
(* Values *)

NULL == "null"
UNDEFINED == "undefined"

NodeNames == {"a", "b", "c"}
Values == {"on", "off"}

\* The value of a node's stateSpace field when no domain is declared (null).
NoStateSpace == {"<no stateSpace>"}
\* The domains the stateSpace predicate is called with.
Domains == {{"on"}}

\* The mechanism functions handed to causes(): the test's
\* (state) => state === "on" ? "on" : "off", and one that reports
\* "no effect" by returning null.
Mechs == {"copy", "toNull"}

\* mechanism(currentState); "invert" is (state) => state === "on" ? "off" : "on".
Apply(mechanism, currentState) ==
    IF mechanism = "copy"
    THEN (IF currentState = "on" THEN "on" ELSE "off")
    ELSE IF mechanism = "invert"
         THEN (IF currentState = "on" THEN "off" ELSE "on")
         ELSE NULL

EmptyMap == [k \in {} |-> NULL]

MapSet(m, k, v) == [x \in DOMAIN m \cup {k} |-> IF x = k THEN v ELSE m[x]]

-----------------------------------------------------------------------------
(* CausalModel *)

addNode(nd, name, defaultState, stateSpace) ==
    MapSet(nd, name, [state |-> defaultState, stateSpace |-> stateSpace,
                      parents |-> {}, children |-> {}])

RECURSIVE EdgeIndex(_, _, _)
EdgeIndex(es, effect, i) ==
    IF i > Len(es) THEN 0
    ELSE IF es[i][1] = effect THEN i ELSE EdgeIndex(es, effect, i + 1)

\* Map.set on the inner edge map: overwrite in place, or append.
EdgeSet(es, effect, mechanism) ==
    LET i == EdgeIndex(es, effect, 1) IN
    IF i = 0 THEN Append(es, <<effect, mechanism>>)
    ELSE [es EXCEPT ![i] = <<effect, mechanism>>]

\* addCause returns the new nodes and edges.
addCause(nd, ed, cause, effect, mechanism) ==
    LET n1 == IF cause \in DOMAIN nd THEN nd ELSE addNode(nd, cause, NULL, NoStateSpace)
        n2 == IF effect \in DOMAIN n1 THEN n1 ELSE addNode(n1, effect, NULL, NoStateSpace)
        e1 == IF cause \in DOMAIN ed THEN ed ELSE MapSet(ed, cause, <<>>)
        e2 == [e1 EXCEPT ![cause] = EdgeSet(@, effect, mechanism)]
        n3 == [n2 EXCEPT ![effect].parents = @ \cup {cause}]
        n4 == [n3 EXCEPT ![cause].children = @ \cup {effect}]
    IN  [nodes |-> n4, edges |-> e2]

\* A getState that reads the stored state only.
getStateStored(nd, iv, node) ==
    IF node \in DOMAIN nd THEN nd[node].state ELSE NULL

getState(nd, iv, node) ==
    IF node \in DOMAIN iv THEN iv[node]
    ELSE IF node \in DOMAIN nd THEN nd[node].state ELSE NULL

\* _updateNodeState: [nodes, threw]
updateNodeState(nd, node, newState) ==
    IF node \notin DOMAIN nd THEN [nodes |-> nd, threw |-> FALSE]
    ELSE IF nd[node].stateSpace # NoStateSpace /\ newState \notin nd[node].stateSpace
         THEN [nodes |-> nd, threw |-> TRUE]
         ELSE [nodes |-> [nd EXCEPT ![node].state = newState], threw |-> FALSE]

\* The for-loop over one node's outgoing edges, from edge i on.
\* L = [nodes, queue, visited, threw, walked].
RECURSIVE EdgeLoop(_, _, _, _, _)
EdgeLoop(es, i, currentState, iv, L) ==
    IF i > Len(es) \/ L.threw THEN L
    ELSE LET childNode == es[i][1]
             newState == Apply(es[i][2], currentState)
         IN  IF childNode \in DOMAIN iv \/ newState = NULL
             THEN EdgeLoop(es, i + 1, currentState, iv, L)
             ELSE LET u == updateNodeState(L.nodes, childNode, newState) IN
                  IF u.threw THEN [L EXCEPT !.threw = TRUE]
                  ELSE EdgeLoop(es, i + 1, currentState, iv,
                                [L EXCEPT !.nodes = u.nodes,
                                          !.queue = Append(@, childNode)])

\* The loop without its visited check: every dequeued node is processed.
PropIterNoVisited(ed, iv, L) ==
    LET currentNode == Head(L.queue)
        L2 == [L EXCEPT !.queue = Tail(@), !.visited = @ \cup {currentNode},
                        !.walked = FALSE]
    IN  IF currentNode \notin DOMAIN ed THEN L2
        ELSE EdgeLoop(ed[currentNode], 1, getState(L.nodes, iv, currentNode), iv,
                      [L2 EXCEPT !.walked = TRUE])

\* An iteration that applies every outgoing edge, whether or not its target
\* is under an intervention.
PropIterAllEdges(ed, iv, L) ==
    LET currentNode == Head(L.queue)
        L1 == [L EXCEPT !.queue = Tail(@), !.walked = FALSE]
    IN  IF currentNode \in L.visited THEN L1
        ELSE LET L2 == [L1 EXCEPT !.visited = @ \cup {currentNode}] IN
             IF currentNode \notin DOMAIN ed THEN L2
             ELSE EdgeLoop(ed[currentNode], 1, getState(L.nodes, iv, currentNode),
                           EmptyMap, [L2 EXCEPT !.walked = TRUE])

\* One iteration of the while-loop of _propagateEffects.  walked tells
\* whether the iteration went through the outgoing edges of the node.
PropIter(ed, iv, L) ==
    LET currentNode == Head(L.queue)
        L1 == [L EXCEPT !.queue = Tail(@), !.walked = FALSE]
    IN  IF currentNode \in L.visited THEN L1
        ELSE LET L2 == [L1 EXCEPT !.visited = @ \cup {currentNode}] IN
             IF currentNode \notin DOMAIN ed THEN L2
             ELSE EdgeLoop(ed[currentNode], 1, getState(L.nodes, iv, currentNode), iv,
                           [L2 EXCEPT !.walked = TRUE])

PropStart(nd, startNode) ==
    [nodes |-> nd, queue |-> <<startNode>>, visited |-> {}, threw |-> FALSE,
     walked |-> FALSE]

RECURSIVE PropRun(_, _, _)
PropRun(ed, iv, L) ==
    IF L.queue = <<>> \/ L.threw THEN L ELSE PropRun(ed, iv, PropIter(ed, iv, L))

\* _propagateEffects run to completion: [nodes, threw, ...].
propagateEffects(nd, ed, iv, startNode) == PropRun(ed, iv, PropStart(nd, startNode))

\* CausalModel.intervene run to completion: [nodes, interventions, threw].
intervene(nd, ed, iv, node, value) ==
    LET iv1 == MapSet(iv, node, value)
        r == propagateEffects(nd, ed, iv1, node)
    IN  [nodes |-> r.nodes, interventions |-> iv1, threw |-> r.threw]

-----------------------------------------------------------------------------
(* Counterfactual *)

RECURSIVE MapIndex(_, _, _)
MapIndex(m, key, i) ==
    IF i > Len(m) THEN 0
    ELSE IF m[i][1] = key THEN i ELSE MapIndex(m, key, i + 1)

\* Map.set on an insertion-ordered Map: overwrite in place, or append.
SeqMapSet(m, key, value) ==
    LET i == MapIndex(m, key, 1) IN
    IF i = 0 THEN Append(m, <<key, value>>) ELSE [m EXCEPT ![i] = <<key, value>>]

\* Counterfactual.intervene: accumulate one pending intervention.
cfIntervene(pending, variable, value) == SeqMapSet(pending, variable, value)

\* The builder's pending map after the chained .intervene() calls.
RECURSIVE PendingOf(_, _)
PendingOf(cs, i) ==
    IF i = 0 THEN <<>>
    ELSE cfIntervene(PendingOf(cs, i - 1), cs[i][1], cs[i][2])

\* The loop applying the pending interventions, from entry i on: [cm, threw].
RECURSIVE ApplyPending(_, _, _)
ApplyPending(cm, pending, i) ==
    IF i > Len(pending) THEN [cm |-> cm, threw |-> FALSE]
    ELSE LET r == intervene(cm.nodes, cm.edges, cm.interventions,
                            pending[i][1], pending[i][2])
             cm1 == [cm EXCEPT !.nodes = r.nodes, !.interventions = r.interventions]
         IN  IF r.threw THEN [cm |-> cm1, threw |-> TRUE]
             ELSE ApplyPending(cm1, pending, i + 1)

\* The finally block: node states back to the snapshot, for nodes still there.
RestoreStates(nd, originalStates) ==
    [n \in DOMAIN nd |->
        IF n \in DOMAIN originalStates
        THEN [nd[n] EXCEPT !.state = originalStates[n]] ELSE nd[n]]

\* A snapshot of compute before it had try/finally: the states are put back
\* only when no error was raised, the live interventions never.
computeNoFinally(cm, pending) ==
    LET originalStates == [n \in DOMAIN cm.nodes |-> cm.nodes[n].state]
        r == ApplyPending([cm EXCEPT !.interventions = EmptyMap], pending, 1)
    IN  [cm |-> IF r.threw THEN r.cm
                ELSE [r.cm EXCEPT !.nodes = RestoreStates(r.cm.nodes, originalStates)],
         effects |-> IF r.threw THEN EmptyMap
                     ELSE [n \in DOMAIN r.cm.nodes |->
                              getState(r.cm.nodes, r.cm.interventions, n)],
         threw |-> r.threw,
         tried |-> r.cm]

\* A compute that applies the pending interventions on top of the live ones.
computeKeepsLive(cm, pending) ==
    LET originalStates == [n \in DOMAIN cm.nodes |-> cm.nodes[n].state]
        r == ApplyPending(cm, pending, 1)
    IN  [cm |-> [r.cm EXCEPT !.nodes = RestoreStates(r.cm.nodes, originalStates),
                             !.interventions = cm.interventions],
         effects |-> IF r.threw THEN EmptyMap
                     ELSE [n \in DOMAIN r.cm.nodes |->
                              getState(r.cm.nodes, r.cm.interventions, n)],
         threw |-> r.threw,
         tried |-> r.cm]

\* Counterfactual.compute: [cm, effects, threw]; tried is the causal model as
\* the try block left it, before the finally block ran.
compute(cm, pending) ==
    LET originalStates == [n \in DOMAIN cm.nodes |-> cm.nodes[n].state]
        originalInterventions == cm.interventions
        r == ApplyPending([cm EXCEPT !.interventions = EmptyMap], pending, 1)
        effects == IF r.threw THEN EmptyMap
                   ELSE [n \in DOMAIN r.cm.nodes |->
                            getState(r.cm.nodes, r.cm.interventions, n)]
    IN  [cm |-> [r.cm EXCEPT !.nodes = RestoreStates(r.cm.nodes, originalStates),
                             !.interventions = originalInterventions],
         effects |-> effects,
         threw |-> r.threw,
         tried |-> r.cm]

getEffect(effects, variable) ==
    IF variable \in DOMAIN effects THEN effects[variable] ELSE UNDEFINED

-----------------------------------------------------------------------------
(* The facade's causal predicates, on the active Reality's causal model *)

NewCausalModel == [nodes |-> EmptyMap, edges |-> EmptyMap, interventions |-> EmptyMap]

NewReality(name) == [name |-> name, causalModel |-> NewCausalModel]

\* The null reference.
NoReality == 0

CM == heap[activeReality].causalModel

\* A value of the knowledge base: a plain value, or a Set (isA) whose elements
\* are kept in insertion order.
KBValue(v) == [kind |-> "value", value |-> v, elems |-> <<>>]
KBSet(elems) == [kind |-> "set", value |-> NULL, elems |-> elems]

causes(cm, cause, effect, mechanism) ==
    LET r == addCause(cm.nodes, cm.edges, cause, effect, mechanism) IN
    [cm EXCEPT !.nodes = r.nodes, !.edges = r.edges]

stateSpace(cm, variable, possibleStates) ==
    IF variable \notin DOMAIN cm.nodes
    THEN [cm EXCEPT !.nodes = addNode(@, variable, NULL, possibleStates)]
    ELSE [cm EXCEPT !.nodes[variable].stateSpace = possibleStates]

\* An assert that goes on to propagate from the node it has written.
assertStatePropagates(cm, variable, state) ==
    LET nd == IF variable \in DOMAIN cm.nodes THEN cm.nodes
              ELSE addNode(cm.nodes, variable, NULL, NoStateSpace)
    IN  [cm EXCEPT !.nodes = propagateEffects([nd EXCEPT ![variable].state = state],
                                              cm.edges, cm.interventions,
                                              variable).nodes]

\* The causal half of the assert predicate.
assertState(cm, variable, state) ==
    LET nd == IF variable \in DOMAIN cm.nodes THEN cm.nodes
              ELSE addNode(cm.nodes, variable, NULL, NoStateSpace)
    IN  [cm EXCEPT !.nodes = [nd EXCEPT ![variable].state = state]]

\* split(':') of the names that contain a colon; any other name is one segment.
SplitTable ==
    [s \in {"likes:alice", "likes:bob"} |->
        IF s = "likes:alice" THEN <<"likes", "alice">> ELSE <<"likes", "bob">>]

Split(s) == IF s \in DOMAIN SplitTable THEN SplitTable[s] ELSE <<s>>

\* The knowledge-base half of the assert predicate.
assertFact(kb, variable, state) == SeqMapSet(kb, Split(variable), KBValue(state))

-----------------------------------------------------------------------------
(* JavaScript values seen by the engine, Term.js *)

\* A value is a record: k is its type, s / n / l its string, number or array
\* content, and t tells that it is a Term object wrapping that raw value
\* (binding null, ast null).
Str(s) == [k |-> "str", s |-> s, n |-> 0, l |-> <<>>, t |-> FALSE, ast |-> FALSE]
Num(n) == [k |-> "num", s |-> "", n |-> n, l |-> <<>>, t |-> FALSE, ast |-> FALSE]
Lst(l) == [k |-> "list", s |-> "", n |-> 0, l |-> l, t |-> FALSE, ast |-> FALSE]
Null == [k |-> "null", s |-> "", n |-> 0, l |-> <<>>, t |-> FALSE, ast |-> FALSE]

\* new Term(value)
Term(value) == [value EXCEPT !.t = TRUE]

\* new Term(value, ast) with an ast that is not null.
TermAst(value) == [value EXCEPT !.t = TRUE, !.ast = TRUE]

\* Term.isExpression
isExpression(term) == term.ast

\* A string of the node / fact world as an engine value.
FromAtom(s) == IF s = NULL THEN Null ELSE Str(s)

\* The strings that start with '$', each with its slice(1).  Variable names
\* start with an upper-case letter, as the pattern of _substituteVariables asks.
VarName == [v \in {"$X", "$Y", "$Z", "$R", "$F", "$T"} |->
               CASE v = "$X" -> "X" [] v = "$Y" -> "Y" [] v = "$Z" -> "Z"
                 [] v = "$R" -> "R" [] v = "$F" -> "F" [] v = "$T" -> "T"]

startsWithDollar(s) == s \in DOMAIN VarName

isVariable(term) == term.k = "str" /\ startsWithDollar(term.s)

isList(term) == term.k = "list"

\* === on two values neither of which is a variable nor both arrays: arrays are
\* compared by reference, and the two sides are never the same array.
StrictEq(v1, v2) ==
    /\ v1.k = v2.k
    /\ v1.k # "list"
    /\ v1.s = v2.s
    /\ v1.n = v2.n

-----------------------------------------------------------------------------
(* UnificationContext *)

maxDepth == 100

\* new UnificationContext().  allocated is not a field of the object: it
\* counts the Term objects that rule conditions have stored so far, so that
\* two Terms of equal content can be told apart (see WithId).
NewContext == [bindings |-> <<>>, choicePoints |-> <<>>, depth |-> 0, allocated |-> 0]

\* this.context = new UnificationContext() while ctx is the current context.
newUnificationContext(ctx) == [NewContext EXCEPT !.allocated = ctx.allocated]

\* No choice point has been created.
NoTrail == [recorded |-> <<>>, handed |-> <<>>, snapshots |-> <<>>]

\* Map.has / Map.get / Map.set on an insertion-ordered Map.
Has(m, k) == \E i \in 1..Len(m) : m[i][1] = k
Get(m, k) == m[MapIndex(m, k, 1)][2]
Put(m, k, v) == SeqMapSet(m, k, v)

-----------------------------------------------------------------------------
(* The unifier *)

\* The occurs check that looks at the elements of a list but not inside them.
occursCheckShallow(variable, term) ==
    IF isVariable(term) THEN variable.s = term.s
    ELSE IF isList(term)
         THEN \E i \in 1..Len(term.l) :
                  isVariable(term.l[i]) /\ variable.s = term.l[i].s
         ELSE FALSE

RECURSIVE occursCheck(_, _)
occursCheck(variable, term) ==
    IF isVariable(term) THEN variable.s = term.s
    ELSE IF isList(term)
         THEN \E i \in 1..Len(term.l) : occursCheck(variable, term.l[i])
         ELSE FALSE

\* _bindVariable on a string: a variable name takes the raw value, any
\* other string is compared with it.
bindVariableString(bindings, variable, value) ==
    IF startsWithDollar(variable.s)
    THEN [ok |-> TRUE, bindings |-> Put(bindings, VarName[variable.s], value)]
    ELSE [ok |-> variable = value, bindings |-> bindings]

\* A _bindVariable that answers true and stores nothing.
bindVariableNoStore(bindings, variable, value) == [ok |-> TRUE, bindings |-> bindings]

\* _bindVariable on a Term that is a variable; value is the other Term.
bindVariable(bindings, variable, value) ==
    IF occursCheck(variable, value)
    THEN [ok |-> FALSE, bindings |-> bindings]
    ELSE [ok |-> TRUE, bindings |-> Put(bindings, VarName[variable.s], Term(value))]

\* unify on raw values and on a Term built by a predicate: _resolveTerm wraps
\* a raw value in a fresh Term, so the two Terms are never the same object.
\* A number against a Term with an ast goes to _bindVariable with that Term
\* as the variable: it is no variable and the number holds nothing, so only
\* the Term's binding field is written and the answer is true.  At most one
\* side has an ast, so _unifyAST is not reached.
RECURSIVE unify(_, _, _)
RECURSIVE unifyEvery(_, _, _, _)
unify(bindings, term1, term2) ==
    IF isVariable(term1) /\ isVariable(term2)
    THEN IF term1.s = term2.s THEN [ok |-> TRUE, bindings |-> bindings]
         ELSE bindVariable(bindings, term1, term2)
    ELSE IF isVariable(term1) THEN bindVariable(bindings, term1, term2)
    ELSE IF isVariable(term2) THEN bindVariable(bindings, term2, term1)
    ELSE IF term1.k = "num" /\ isExpression(term2)
    THEN [ok |-> TRUE, bindings |-> bindings]
    ELSE IF term2.k = "num" /\ isExpression(term1)
    THEN [ok |-> TRUE, bindings |-> bindings]
    ELSE IF isList(term1) /\ isList(term2)
         THEN IF Len(term1.l) # Len(term2.l)
              THEN [ok |-> FALSE, bindings |-> bindings]
              ELSE unifyEvery(bindings, term1.l, term2.l, 1)
    ELSE [ok |-> StrictEq(term1, term2), bindings |-> bindings]

\* Array.every over the elements: stops at the first pair that fails.
unifyEvery(bindings, l1, l2, i) ==
    IF i > Len(l1) THEN [ok |-> TRUE, bindings |-> bindings]
    ELSE LET r == unify(bindings, l1[i], l2[i]) IN
         IF r.ok THEN unifyEvery(r.bindings, l1, l2, i + 1) ELSE r

\* _evaluateArithmetic: the number, or null.
evaluateArithmetic(term) ==
    IF isVariable(term) THEN Null
    ELSE IF term.k = "num" THEN term ELSE Null

\* A boolean and undefined as engine values.
BoolV(b) == [k |-> "bool", s |-> IF b THEN "true" ELSE "false", n |-> 0, l |-> <<>>,
             t |-> FALSE, ast |-> FALSE]
Undef == [k |-> "undef", s |-> UNDEFINED, n |-> 0, l |-> <<>>, t |-> FALSE, ast |-> FALSE]

\* String(value), as a template literal or Array.join renders an argument
\* (numbers and arrays are not passed where a key is built from them).
StringOf(v) == IF v.k = "null" THEN NULL ELSE v.s

\* JavaScript truthiness of a value.
TruthyV(v) ==
    CASE v.k = "null" -> FALSE
      [] v.k = "undef" -> FALSE
      [] v.k = "bool" -> v.s = "true"
      [] v.k = "str" -> v.s # ""
      [] v.k = "num" -> v.n # 0
      [] OTHER -> TRUE

\* args[i] of a rest-parameter array (JavaScript indexes from 0).
Arg(args, i) == IF i + 1 <= Len(args) THEN args[i + 1] ELSE Undef

\* parts[i] of an array of strings.
Part(parts, i) == IF i + 1 <= Len(parts) THEN parts[i + 1] ELSE UNDEFINED

-----------------------------------------------------------------------------
(* Built-in predicates *)

PredicateNames == {"cons", "head", "tail", "append", "add", "subtract", "multiply",
                   "greater", "less", "queryState"}

\* typeof this[goal] === 'function', for the goals used here.
isPredicate(goal) == goal \in PredicateNames

Failed(bindings) == [ok |-> FALSE, bindings |-> bindings]

\* _hashAST of the expression left + right over two variables: a string that
\* starts with AST_ and stands for the 32-bit hash of the two names.
hashAST(left, right) == "AST_" \o left \o "_" \o right

\* The add predicate on two variables (the strings add is given are
\* variables): the two Terms are stored under the keys X and Y, the Term of
\* the expression under its hash, and that Term is unified with the result.
addVariables(bindings, x, y, result) ==
    LET astTerm == TermAst(Str(hashAST(VarName[x.s], VarName[y.s])))
    IN  unify(Put(Put(Put(bindings, "X", Term(x)), "Y", Term(y)), astTerm.s, astTerm),
              result, astTerm)

\* What a built-in throws on these arguments, or "" when it throws nothing:
\* add with an operand that is no number builds the expression with
\* Term.createBinaryOp, which calls value.replace on both operands.
predicateThrows(goal, args) ==
    IF /\ goal = "add"
       /\ evaluateArithmetic(Arg(args, 0)) = Null \/ evaluateArithmetic(Arg(args, 1)) = Null
       /\ Arg(args, 0).k # "str" \/ Arg(args, 1).k # "str"
    THEN "TypeError: value.replace is not a function"
    ELSE ""

\* this[goal](...args) for a built-in that does not throw: whether it
\* succeeded, and the bindings of this.context after it.
callPredicate(bindings, goal, args) ==
    LET a0 == Arg(args, 0)
        a1 == Arg(args, 1)
        a2 == Arg(args, 2)
        x == evaluateArithmetic(a0)
        y == evaluateArithmetic(a1)
        known == x.k = "num" /\ y.k = "num"
    IN  CASE goal = "cons" ->
                 IF isList(a1) THEN unify(bindings, a2, Lst(<<a0>> \o a1.l))
                 ELSE Failed(bindings)
          [] goal = "head" ->
                 IF isList(a0) /\ Len(a0.l) > 0 THEN unify(bindings, a1, a0.l[1])
                 ELSE Failed(bindings)
          [] goal = "tail" ->
                 IF isList(a0) /\ Len(a0.l) > 0 THEN unify(bindings, a1, Lst(Tail(a0.l)))
                 ELSE Failed(bindings)
          [] goal = "append" ->
                 IF isList(a0) /\ isList(a1) THEN unify(bindings, a2, Lst(a0.l \o a1.l))
                 ELSE Failed(bindings)
          [] goal = "add" ->
                 IF known THEN unify(bindings, a2, Num(x.n + y.n))
                 ELSE addVariables(bindings, a0, a1, a2)
          [] goal = "subtract" ->
                 IF known THEN unify(bindings, a2, Num(x.n - y.n)) ELSE Failed(bindings)
          [] goal = "multiply" ->
                 IF known THEN unify(bindings, a2, Num(x.n * y.n)) ELSE Failed(bindings)
          [] goal = "greater" -> [ok |-> known /\ x.n > y.n, bindings |-> bindings]
          [] goal = "less" -> [ok |-> known /\ x.n < y.n, bindings |-> bindings]
          [] OTHER -> Failed(bindings)

-----------------------------------------------------------------------------
(* Knowledge base and rules of the facade *)

Elems(s) == {s[i] : i \in 1..Len(s)}

isA(kb, entity, category) ==
    LET key == <<"isA", category>>
        old == IF Has(kb, key) THEN Get(kb, key).elems ELSE <<>>
    IN  Put(kb, key, KBSet(IF entity \in Elems(old) THEN old ELSE Append(old, entity)))

hasA(kb, entity, property, value) ==
    Put(kb, <<"hasA", entity, property>>, KBValue(value))

\* head is the rule key, body the array of the remaining arguments.
addRule(rl, head, body) == Put(rl, head, body)

\* areSemanticallySimilar with no semantic relation declared.
areSemanticallySimilar(term1, term2) == term1 = term2

matchesRule(query, ruleHead) == ruleHead[1] = query

RECURSIVE matchFrom(_, _, _, _)
matchFrom(patternParts, factParts, bindings, i) ==
    IF i > Len(patternParts) THEN [ok |-> TRUE, bindings |-> bindings]
    ELSE IF startsWithDollar(patternParts[i])
         THEN LET varName == VarName[patternParts[i]] IN
              IF Has(bindings, varName)
              THEN IF Get(bindings, varName) # Str(factParts[i])
                   THEN Failed(bindings)
                   ELSE matchFrom(patternParts, factParts, bindings, i + 1)
              ELSE matchFrom(patternParts, factParts,
                             Put(bindings, varName, Str(factParts[i])), i + 1)
         ELSE IF patternParts[i] # factParts[i] THEN Failed(bindings)
              ELSE matchFrom(patternParts, factParts, bindings, i + 1)

\* _matchPattern: false, or the bindings (possibly empty).
matchPattern(patternParts, factParts) ==
    IF Len(patternParts) # Len(factParts) THEN Failed(<<>>)
    ELSE matchFrom(patternParts, factParts, <<>>, 1)

queryIsA(kb, entity, category) ==
    /\ Has(kb, <<"isA", category>>)
    /\ entity \in Elems(Get(kb, <<"isA", category>>).elems)

\* The stored value, or null.
queryHasA(kb, entity, property) ==
    IF Has(kb, <<"hasA", entity, property>>)
    THEN FromAtom(Get(kb, <<"hasA", entity, property>>).value)
    ELSE Null

RECURSIVE substituteArgsFrom(_, _, _, _)
substituteArgsFrom(bindings, queryArgs, variables, i) ==
    IF i > Len(variables) THEN bindings
    ELSE IF i <= Len(queryArgs)
         THEN LET v == variables[i]
                  varName == IF startsWithDollar(v) THEN VarName[v] ELSE v
              IN  substituteArgsFrom(Put(bindings, varName, queryArgs[i]),
                                     queryArgs, variables, i + 1)
         ELSE substituteArgsFrom(bindings, queryArgs, variables, i + 1)

substituteArgs(queryArgs, ruleHead) ==
    substituteArgsFrom(<<>>, queryArgs, Tail(ruleHead), 1)

\* A substitution that leaves the pattern as it is.
keepPattern(pattern, bindings) == pattern

\* Each $Name of the pattern is replaced by String(bindings.get(Name)) when
\* that is truthy, and left as it is otherwise.
substituteVariables(pattern, bindings) ==
    [i \in 1..Len(pattern) |->
        IF startsWithDollar(pattern[i]) /\ Has(bindings, VarName[pattern[i]])
           /\ TruthyV(Get(bindings, VarName[pattern[i]]))
        THEN StringOf(Get(bindings, VarName[pattern[i]]))
        ELSE pattern[i]]

\* The forEach at the head of _evaluateRuleBody: a value that is not a
\* variable string overwrites, a variable string only fills a missing key.
RECURSIVE mergeBindings(_, _, _)
mergeBindings(contextBindings, bindings, i) ==
    IF i > Len(bindings) THEN contextBindings
    ELSE LET key == bindings[i][1]
             value == bindings[i][2]
         IN  IF ~isVariable(value) \/ value.t \/ ~Has(contextBindings, key)
             THEN mergeBindings(Put(contextBindings, key, value), bindings, i + 1)
             ELSE mergeBindings(contextBindings, bindings, i + 1)

solutionsEqual(sol1, sol2) ==
    /\ Len(sol1) = Len(sol2)
    /\ \A i \in 1..Len(sol1) :
           Has(sol2, sol1[i][1]) /\ Get(sol2, sol1[i][1]) = sol1[i][2]

hasSolution(results, newSolution) ==
    \E i \in 1..Len(results) : solutionsEqual(results[i], newSolution)

-----------------------------------------------------------------------------
(* query / infer *)

\* What a call returns: a boolean (b), a raw value (v), one binding Map (m),
\* an array of binding Maps (l), or an exception (msg).
Result(kind) ==
    [kind |-> kind, b |-> FALSE, v |-> Null, m |-> <<>>, l |-> <<>>, msg |-> ""]
RBool(b) == [Result("bool") EXCEPT !.b = b]
RVal(v) == [Result("value") EXCEPT !.v = v]
RMap(m) == [Result("map") EXCEPT !.m = m]
RList(l) == [Result("list") EXCEPT !.l = l]
RThrow(msg) == [Result("throw") EXCEPT !.msg = msg]

Truthy(r) ==
    CASE r.kind = "bool" -> r.b
      [] r.kind = "value" -> TruthyV(r.v)
      [] OTHER -> TRUE

\* An engine that takes a Reality to be active whether or not one is.
EngineNoGuard(kb, rl, active, nodes) ==
    [kb |-> kb, rules |-> rl, active |-> TRUE, nodes |-> nodes]

\* What the engine reads and does not write while it answers: the knowledge
\* base, the rules, and the causal nodes of the active Reality.
Engine(kb, rl, active, nodes) ==
    [kb |-> kb, rules |-> rl, active |-> active, nodes |-> nodes]

\* The solutions of the direct fact check, in the order of the knowledge base.
RECURSIVE directFacts(_, _, _)
directFacts(kb, queryKey, i) ==
    IF i > Len(kb) THEN <<>>
    ELSE LET m == matchPattern(queryKey, kb[i][1])
             value == kb[i][2]
             here == IF ~m.ok THEN <<>>
                     ELSE IF value.kind = "set"
                          THEN [j \in 1..Len(value.elems) |->
                                   Put(m.bindings, "result", Str(value.elems[j]))]
                          ELSE <<Put(m.bindings, "result", FromAtom(value.value))>>
         IN  here \o directFacts(kb, queryKey, i + 1)

StackOverflow == "RangeError: Maximum call stack size exceeded"

\* A read that takes the fact from the shared knowledge base instead.
nodeStateGlobal(E, goal) ==
    IF Has(E.kb, <<goal>>) THEN Get(E.kb, <<goal>>).value ELSE NULL

\* node.state of the causal node of the active Reality that the goal names.
nodeState(E, goal) == E.nodes[goal].state

NoSuchNode == "TypeError: Cannot read properties of undefined (reading 'state')"

\* The queryState predicate on a node that exists: the state field of the
\* node is bound to $State.
queryState(nodes, bindings, variable, State) ==
    bindVariableString(bindings, State, FromAtom(nodes[variable].state))

RECURSIVE query(_, _, _, _, _)
RECURSIVE findSolution(_, _, _, _, _, _)
RECURSIVE foundSolution(_, _, _, _, _, _)
RECURSIVE evaluateGoal(_, _, _, _, _)
RECURSIVE tryRules(_, _, _, _, _, _)
RECURSIVE firstCondition(_, _, _, _, _, _)
RECURSIVE restConditions(_, _, _, _, _, _)
RECURSIVE evaluateRuleBody(_, _, _, _, _)
RECURSIVE everyCondition(_, _, _, _, _, _)
RECURSIVE condition(_, _, _, _, _, _, _)
RECURSIVE recursiveResult(_, _, _, _, _, _, _)
RECURSIVE functionResult(_, _, _, _, _, _)

\* A rule condition that is a function of the context, by what it returns; a
\* condition that is a string is the sequence of its segments.
FunctionTrue == <<"(context) => true">>
FunctionFalse == <<"(context) => false">>

\* Conditions that call a built-in predicate: with literal arguments, and
\* with the values that the context holds for the variables of the head.
FunctionAdd == <<"(context) => ps.add(1, 2, '$Z')">>
FunctionCons == <<"(context) => ps.cons(1, [], '$T')">>
FunctionDouble ==
    <<"(context) => ps.multiply(context.bindings.get('X'), 2, context.bindings.get('Y'))">>

\* typeof condition === 'function'
isFunction(cond) ==
    cond \in {FunctionTrue, FunctionFalse, FunctionAdd, FunctionCons, FunctionDouble}

\* The Term object number id: !== on two objects compares what they are, not
\* what they hold, and the id is what the object is.
WithId(term, id) == [x \in DOMAIN term \cup {"id"} |-> IF x = "id" THEN id ELSE term[x]]

\* What the object holds.
ValueOf(term) == [x \in DOMAIN term \ {"id"} |-> term[x]]

\* The Terms that a call has created and stored in the bindings are new
\* objects: each takes the next number.  [bindings, allocated]
RECURSIVE allocateTerms(_, _, _)
allocateTerms(bindings, n, i) ==
    IF i > Len(bindings) THEN [bindings |-> bindings, allocated |-> n]
    ELSE IF bindings[i][2].t /\ "id" \notin DOMAIN bindings[i][2]
         THEN allocateTerms([bindings EXCEPT ![i] = <<@[1], WithId(@[2], n + 1)>>],
                            n + 1, i + 1)
         ELSE allocateTerms(bindings, n, i + 1)

\* this.context with the bindings that the built-in called by a condition has
\* left, a being those bindings with their new Terms numbered.
calledPredicate(ctx, ok, a) ==
    [ok |-> ok, ctx |-> [ctx EXCEPT !.bindings = a.bindings, !.allocated = a.allocated]]

\* context.bindings.get(key)
bindingsGet(bindings, key) == IF Has(bindings, key) THEN Get(bindings, key) ELSE Undef

\* The built-in that the condition calls, and the arguments it passes.
calledGoal(cond) ==
    CASE cond = FunctionAdd -> "add"
      [] cond = FunctionCons -> "cons"
      [] cond = FunctionDouble -> "multiply"
calledArgs(bindings, cond) ==
    CASE cond = FunctionAdd -> <<Num(1), Num(2), Str("$Z")>>
      [] cond = FunctionCons -> <<Num(1), Lst(<<>>), Str("$T")>>
      [] cond = FunctionDouble ->
             <<bindingsGet(bindings, "X"), Num(2), bindingsGet(bindings, "Y")>>

\* The condition's call of the built-in, p being what the built-in answered.
callBuiltin(ctx, p) == calledPredicate(ctx, p.ok, allocateTerms(p.bindings, ctx.allocated, 1))

\* condition(context): [ok, ctx]
callFunction(ctx, cond) ==
    IF cond \in {FunctionTrue, FunctionFalse}
    THEN [ok |-> cond = FunctionTrue, ctx |-> ctx]
    ELSE callBuiltin(ctx, callPredicate(ctx.bindings, calledGoal(cond),
                                        calledArgs(ctx.bindings, cond)))

\* The callback of conditions.every(...) on condition i, whose parts after
\* the substitution are given; a condition that holds goes on to the next.
condition(E, ctx, bindings, conditions, i, fuel, parts) ==
    LET no == [ctx |-> ctx, bindings |-> bindings, ok |-> FALSE, threw |-> ""]
        entity == Part(parts, 1)
        requestedProp == Part(parts, 2)
        expectedValue == Part(parts, 3)
        key == <<"hasA", entity, requestedProp>>
    IN  CASE parts[1] = "isA" ->
                 IF queryIsA(E.kb, Part(parts, 1), Part(parts, 2))
                 THEN everyCondition(E, ctx, bindings, conditions, i + 1, fuel)
                 ELSE no
          [] parts[1] = "hasA" ->
                 IF ~Has(E.kb, key) THEN no
                 ELSE LET value == Get(E.kb, key).value IN
                      IF expectedValue # UNDEFINED /\ expectedValue # ""
                         /\ ~startsWithDollar(expectedValue)
                      THEN IF areSemanticallySimilar(value, expectedValue)
                           THEN everyCondition(E, ctx, bindings, conditions, i + 1, fuel)
                           ELSE no
                      ELSE IF expectedValue # UNDEFINED /\ expectedValue # ""
                      THEN everyCondition(E, ctx,
                                          Put(bindings, VarName[expectedValue],
                                              FromAtom(value)),
                                          conditions, i + 1, fuel)
                      ELSE everyCondition(E, ctx, bindings, conditions, i + 1, fuel)
          [] parts[1] = "ancestor" ->
                 recursiveResult(E, ctx, bindings, conditions, i, fuel,
                                 query(E, ctx, parts[1],
                                       [j \in 1..(Len(parts) - 1) |-> Str(parts[j + 1])],
                                       fuel - 1))
          [] OTHER -> no

\* What the callback makes of q, the outcome of the nested this.query(...parts).
recursiveResult(E, ctx, bindings, conditions, i, fuel, q) ==
    IF q.res.kind = "throw"
    THEN [ctx |-> q.ctx, bindings |-> bindings, ok |-> FALSE, threw |-> q.res.msg]
    ELSE IF Truthy(q.res)
    THEN everyCondition(E, q.ctx, bindings, conditions, i + 1, fuel)
    ELSE [ctx |-> q.ctx, bindings |-> bindings, ok |-> FALSE, threw |-> ""]

\* conditions.every(...) from condition i on.  this.context is ctx, the local
\* Map is bindings; a failed or thrown condition ends the walk.
everyCondition(E, ctx, bindings, conditions, i, fuel) ==
    IF i > Len(conditions)
    THEN [ctx |-> ctx, bindings |-> bindings, ok |-> TRUE, threw |-> ""]
    ELSE IF isFunction(conditions[i])
    THEN functionResult(E, bindings, conditions, i, fuel, callFunction(ctx, conditions[i]))
    ELSE condition(E, ctx, bindings, conditions, i, fuel,
                   substituteVariables(conditions[i], bindings))

\* The callback on a condition that is a function, f being what it answered.
functionResult(E, bindings, conditions, i, fuel, f) ==
    IF f.ok THEN everyCondition(E, f.ctx, bindings, conditions, i + 1, fuel)
    ELSE [ctx |-> f.ctx, bindings |-> bindings, ok |-> FALSE, threw |-> ""]

\* _evaluateRuleBody called with a Map: the Map is merged into this.context
\* and then the conditions are walked.
evaluateRuleBody(E, ctx, conditions, bindings, fuel) ==
    everyCondition(E, [ctx EXCEPT !.bindings = mergeBindings(@, bindings, 1)],
                   bindings, conditions, 1, fuel)

\* The for-loop of _evaluateGoal over the rules whose name is the goal.
tryRules(E, ctx, rs, i, args, fuel) ==
    IF i > Len(rs) THEN [ctx |-> ctx, ok |-> FALSE, threw |-> ""]
    ELSE IF Len(rs[i][2]) = 0
    THEN [ctx |-> ctx, ok |-> FALSE,
          threw |-> "TypeError: Cannot read properties of undefined"]
    ELSE firstCondition(E, rs, i, args, fuel,
                        evaluateRuleBody(E, ctx, <<rs[i][2][1]>>,
                                         substituteArgs(args, rs[i][1]), fuel))

\* Rule i after r1, the outcome of its first condition: the conditions that
\* remain are evaluated with the same Map of bindings.
firstCondition(E, rs, i, args, fuel, r1) ==
    IF r1.threw # "" THEN [ctx |-> r1.ctx, ok |-> FALSE, threw |-> r1.threw]
    ELSE IF ~r1.ok THEN tryRules(E, r1.ctx, rs, i + 1, args, fuel)
    ELSE restConditions(E, rs, i, args, fuel,
                        evaluateRuleBody(E, r1.ctx, Tail(rs[i][2]), r1.bindings, fuel))

\* Rule i after r2, the outcome of its remaining conditions.
restConditions(E, rs, i, args, fuel, r2) ==
    IF r2.threw # "" THEN [ctx |-> r2.ctx, ok |-> FALSE, threw |-> r2.threw]
    ELSE IF r2.ok THEN [ctx |-> r2.ctx, ok |-> TRUE, threw |-> ""]
    ELSE tryRules(E, r2.ctx, rs, i + 1, args, fuel)

\* The outcome of a built-in called with this.context = ctx.
predicateOutcome(ctx, p) ==
    [ctx |-> [ctx EXCEPT !.bindings = p.bindings], ok |-> p.ok, threw |-> ""]

evaluateGoal(E, ctx, goal, args, fuel) ==
    IF isPredicate(goal) /\ predicateThrows(goal, args) # ""
    THEN [ctx |-> ctx, ok |-> FALSE, threw |-> predicateThrows(goal, args)]
    ELSE IF isPredicate(goal)
    THEN predicateOutcome(ctx, callPredicate(ctx.bindings, goal, args))
    ELSE tryRules(E, ctx, SelectSeq(E.rules, LAMBDA r : matchesRule(goal, r[1])),
                  1, args, fuel)

\* while (findSolution()) {...}: evaluate the goal again for as long as it
\* yields a solution not yet among the results.
findSolution(E, ctx, results, goal, args, fuel) ==
    foundSolution(E, results, goal, args, fuel, evaluateGoal(E, ctx, goal, args, fuel))

\* findSolution after g, the outcome of _evaluateGoal, and the loop's body.
foundSolution(E, results, goal, args, fuel, g) ==
    LET more == Append(results, g.ctx.bindings)
    IN  IF g.threw # "" THEN [ctx |-> g.ctx, results |-> results, threw |-> g.threw]
        ELSE IF g.ok /\ ~hasSolution(results, g.ctx.bindings)
        THEN IF Len(more) >= maxDepth
             THEN [ctx |-> g.ctx, results |-> more,
                   threw |-> "Maximum number of solutions exceeded"]
             ELSE findSolution(E, g.ctx, more, goal, args, fuel)
        ELSE [ctx |-> g.ctx, results |-> results, threw |-> ""]

\* query's return from the predicate path, p being the outcome of the built-in.
predicateResult(ctx, p) ==
    [ctx |-> [ctx EXCEPT !.bindings = p.bindings],
     res |-> IF p.ok /\ Len(p.bindings) > 0 THEN RMap(p.bindings) ELSE RBool(p.ok)]

\* query's return from the general path, f being what the solutions loop left.
solutionsResult(f, hasVar) ==
    [ctx |-> [f.ctx EXCEPT !.depth = @ - 1],
     res |-> IF f.threw # "" THEN RThrow(f.threw)
             ELSE IF Len(f.results) = 0 THEN RBool(FALSE)
             ELSE IF hasVar
             THEN IF Len(f.results) = 1 THEN RMap(f.results[1])
                  ELSE RList(f.results)
             ELSE RBool(TRUE)]

\* query(goal, ...args) with this.context = ctx: the value returned or thrown,
\* and this.context afterwards.  fuel is the room left on the call stack.
query(E, ctx, goal, args, fuel) ==
    LET hasVar == \E i \in 1..Len(args) : isVariable(args[i])
        varsTo(result) ==
            LET idx == SelectSeq([i \in 1..Len(args) |-> i],
                                 LAMBDA i : isVariable(args[i]))
                RECURSIVE fill(_, _)
                fill(m, j) == IF j > Len(idx) THEN m
                              ELSE fill(Put(m, VarName[args[idx[j]].s], result), j + 1)
            IN  fill(<<>>, 1)
    IN
    IF fuel <= 0 THEN [ctx |-> ctx, res |-> RThrow(StackOverflow)]
    ELSE IF ~E.active THEN [ctx |-> ctx, res |-> RThrow("No active reality")]
    ELSE IF goal = "isA"
    THEN LET result == queryIsA(E.kb, StringOf(Arg(args, 0)), StringOf(Arg(args, 1)))
         IN  [ctx |-> ctx,
              res |-> IF result /\ hasVar THEN RMap(varsTo(BoolV(TRUE)))
                      ELSE RBool(result)]
    ELSE IF goal = "hasA"
    THEN LET result == queryHasA(E.kb, StringOf(Arg(args, 0)), StringOf(Arg(args, 1)))
         IN  [ctx |-> ctx,
              res |-> IF TruthyV(result) /\ hasVar THEN RMap(varsTo(result))
                      ELSE RVal(result)]
    ELSE IF goal = "queryState"
    THEN IF ctx.depth >= maxDepth
         THEN [ctx |-> ctx, res |-> RThrow("Maximum recursion depth exceeded")]
         ELSE IF StringOf(Arg(args, 0)) \notin DOMAIN E.nodes
         THEN [ctx |-> ctx, res |-> RThrow(NoSuchNode)]
         ELSE predicateResult(ctx, queryState(E.nodes, ctx.bindings,
                                              StringOf(Arg(args, 0)), Arg(args, 1)))
    ELSE IF isPredicate(goal)
    THEN IF ctx.depth >= maxDepth
         THEN [ctx |-> ctx, res |-> RThrow("Maximum recursion depth exceeded")]
         ELSE IF predicateThrows(goal, args) # ""
         THEN [ctx |-> ctx, res |-> RThrow(predicateThrows(goal, args))]
         ELSE predicateResult(ctx, callPredicate(ctx.bindings, goal, args))
    ELSE IF goal \in DOMAIN E.nodes /\ Len(args) = 0
    THEN [ctx |-> ctx, res |-> RVal(FromAtom(nodeState(E, goal)))]
    ELSE IF goal \in DOMAIN E.nodes /\ Len(args) = 1 /\ isVariable(args[1])
    THEN [ctx |-> ctx,
          res |-> RMap(<<<<VarName[args[1].s], FromAtom(nodeState(E, goal))>>>>)]
    ELSE solutionsResult(
             findSolution(E, [newUnificationContext(ctx) EXCEPT !.depth = 1],
                          directFacts(E.kb,
                                      <<goal>> \o (IF Len(args) = 0 THEN <<"">>
                                                   ELSE [i \in 1..Len(args) |->
                                                            StringOf(args[i])]),
                                      1),
                          goal, args, fuel),
             hasVar)

\* _substituteArgs given a function where it expects the string of a head.
NoSplit == "TypeError: ruleHead.split is not a function"

RECURSIVE inferRules(_, _, _, _, _, _)
RECURSIVE inferenceResult(_, _, _, _, _, _)

\* infer's loop over all the rules, from rule i on: the body is evaluated
\* with the arguments bound by their position in its first condition.
inferRules(E, ctx, i, q, args, fuel) ==
    IF i > Len(E.rules) THEN [ctx |-> ctx, res |-> RBool(FALSE)]
    ELSE IF ~matchesRule(q, E.rules[i][1]) THEN inferRules(E, ctx, i + 1, q, args, fuel)
    ELSE IF Len(E.rules[i][2]) = 0
    THEN [ctx |-> ctx, res |-> RThrow("TypeError: Cannot read properties of undefined")]
    ELSE IF isFunction(E.rules[i][2][1])
    THEN [ctx |-> ctx, res |-> RThrow(NoSplit)]
    ELSE inferenceResult(E, i, q, args, fuel,
                         evaluateRuleBody(E, ctx, E.rules[i][2],
                                          substituteArgs(args, E.rules[i][2][1]), fuel))

\* Rule i of infer's loop after r, the outcome of its body.
inferenceResult(E, i, q, args, fuel, r) ==
    IF r.threw # "" THEN [ctx |-> r.ctx, res |-> RThrow(r.threw)]
    ELSE IF r.ok THEN [ctx |-> r.ctx, res |-> RBool(TRUE)]
    ELSE inferRules(E, r.ctx, i + 1, q, args, fuel)

\* infer after directResult, the outcome of its query.
directResultOr(E, q, args, fuel, directResult) ==
    IF directResult.res.kind = "throw" THEN directResult
    ELSE IF directResult.res # RVal(Null) /\ directResult.res # RBool(FALSE)
    THEN directResult
    ELSE inferRules(E, directResult.ctx, 1, q, args, fuel)

infer(E, ctx, q, args, fuel) ==
    directResultOr(E, q, args, fuel, query(E, ctx, q, args, fuel))

\* A createReality that makes every new Reality the active one.
createRealityActivates(active, reference) == reference

\* createReality: the new Reality becomes active when none is.
createReality(active, reference) == IF active = NoReality THEN reference ELSE active

\* A switch that leaves no Reality active when the name is unknown.
switchRealityOrNone(rs, active, name) ==
    IF name \in DOMAIN rs THEN rs[name] ELSE NoReality

\* switchReality: the Reality registered under the name, if there is one.
switchReality(rs, active, name) == IF name \in DOMAIN rs THEN rs[name] ELSE active

\* What switchReality returns.
switchRealityReturns(rs, name) == name \in DOMAIN rs

-----------------------------------------------------------------------------
(* Bounds *)

\* The number of facade calls that build or change the causal model.
MaxCalls == 3
\* The number of chained .intervene() calls on one counterfactual builder.
MaxPending == 2

NoCf == [called |-> FALSE, pending |-> <<>>, effects |-> EmptyMap,
         threw |-> FALSE, before |-> NewCausalModel, tried |-> NewCausalModel]

SetCM(cm) == [heap EXCEPT ![activeReality].causalModel = cm]

\* No query, infer or unify call has just been made.
NoCall == [op |-> "none", goal |-> "", args |-> <<>>, res |-> RBool(FALSE),
           by |-> NoReality, before |-> NewContext]

\* The knowledge base and rules after one more write.
ApplyWrite(st, op, args) ==
    CASE op = "assert" -> [st EXCEPT !.kb = assertFact(@, args[1], args[2])]
      [] op = "isA" -> [st EXCEPT !.kb = isA(@, args[1], args[2])]
      [] op = "hasA" -> [st EXCEPT !.kb = hasA(@, args[1], args[2], args[3])]
      [] op = "addRule" -> [st EXCEPT !.rules = addRule(@, args[1], args[2])]

NothingWritten == [kb |-> <<>>, rules |-> <<>>]

\* Bookkeeping of a write: for each Reality, what was written while it was
\* the active one (by) and what was written while it was not (others).
Record(op, args) ==
    [r \in 1..Len(written) |->
        IF r = activeReality
        THEN [written[r] EXCEPT !.by = ApplyWrite(@, op, args)]
        ELSE [written[r] EXCEPT !.others = ApplyWrite(@, op, args)]]

-----------------------------------------------------------------------------
(* The causal model driven through the facade, with one Reality active *)

InitCf ==
    /\ heap = <<NewReality("r1")>>
    /\ realities = [r \in {"r1"} |-> 1]
    /\ activeReality = 1
    /\ knowledgeBase = <<>>
    /\ queue = <<>>
    /\ visited = {}
    /\ pc = "idle"
    /\ applied = [n \in NodeNames |-> 0]
    /\ lastCf = NoCf
    /\ calls = 0
    /\ rules = <<>>
    /\ context = NewContext
    /\ written = <<[by |-> NothingWritten, others |-> NothingWritten]>>
    /\ last = NoCall
    /\ writes = 0
    /\ asked = 0
    /\ frames = <<>>
    /\ trail = NoTrail

\* A call of the facade is made: no counterfactual is held, the budget allows it.
CanCallWithin(bound) ==
    /\ activeReality # NoReality
    /\ pc = "idle"
    /\ ~lastCf.called
    /\ calls < bound

CanCall == CanCallWithin(MaxCalls)

CausesWithin(bound, cause, effect, mechanism) ==
    /\ CanCallWithin(bound)
    /\ heap' = SetCM(causes(CM, cause, effect, mechanism))
    /\ calls' = calls + 1
    /\ UNCHANGED <<frames, trail, realities, activeReality, knowledgeBase, queue, visited, pc, applied, lastCf,
                   engineVars, written, writes>>

Causes(cause, effect, mechanism) == CausesWithin(MaxCalls, cause, effect, mechanism)

StateSpace(variable, possibleStates) ==
    /\ CanCall
    /\ heap' = SetCM(stateSpace(CM, variable, possibleStates))
    /\ calls' = calls + 1
    /\ UNCHANGED <<frames, trail, realities, activeReality, knowledgeBase, queue, visited, pc, applied, lastCf,
                   engineVars, written, writes>>

AssertState(variable, state) ==
    /\ CanCall
    /\ heap' = SetCM(assertState(CM, variable, state))
    /\ knowledgeBase' = assertFact(knowledgeBase, variable, state)
    /\ written' = Record("assert", <<variable, state>>)
    /\ calls' = calls + 1
    /\ last' = NoCall
    /\ UNCHANGED <<frames, trail, realities, activeReality, queue, visited, pc, applied, lastCf,
                   rules, context, asked, writes>>

\* The intervene predicate; a domain error leaves what was done before it.
InterveneWithin(bound, variable, state) ==
    /\ CanCallWithin(bound)
    /\ LET r == intervene(CM.nodes, CM.edges, CM.interventions, variable, state) IN
       heap' = SetCM([CM EXCEPT !.nodes = r.nodes,
                                     !.interventions = r.interventions])
    /\ calls' = calls + 1
    /\ UNCHANGED <<frames, trail, realities, activeReality, knowledgeBase, queue, visited, pc, applied, lastCf,
                   engineVars, written, writes>>

Intervene(variable, state) == InterveneWithin(MaxCalls, variable, state)

CallSeqs == UNION {[1..n -> NodeNames \X Values] : n \in 0..MaxPending}

\* createCounterfactual(name).intervene(..)...compute()
CfCompute(cs) ==
    /\ activeReality # NoReality
    /\ pc = "idle"
    /\ ~lastCf.called
    /\ LET pending == PendingOf(cs, Len(cs))
           r == compute(CM, pending)
       IN  /\ heap' = SetCM(r.cm)
           /\ lastCf' = [called |-> TRUE, pending |-> pending, effects |-> r.effects,
                         threw |-> r.threw, before |-> CM, tried |-> r.tried]
    /\ UNCHANGED <<frames, trail, realities, activeReality, knowledgeBase, queue, visited, pc, applied, calls,
                   engineVars, written, writes>>

\* The caller drops the counterfactual object.
CfRelease ==
    /\ lastCf.called
    /\ lastCf' = NoCf
    /\ UNCHANGED <<frames, trail, heap, realities, activeReality, knowledgeBase, queue, visited, pc,
                   applied, calls,
                   engineVars, written, writes>>

NextCf ==
    \/ \E c \in NodeNames, e \in NodeNames, m \in Mechs : Causes(c, e, m)
    \/ \E v \in NodeNames, d \in Domains : StateSpace(v, d)
    \/ \E v \in NodeNames, s \in Values : AssertState(v, s)
    \/ \E v \in NodeNames, s \in Values : Intervene(v, s)
    \/ \E cs \in CallSeqs : CfCompute(cs)
    \/ CfRelease

SpecCf == InitCf /\ [][NextCf]_vars

-----------------------------------------------------------------------------
(* Claims about the counterfactual transaction (SpecCf) *)

StoredStates(nd) == [n \in DOMAIN nd |-> nd[n].state]

\* C1: when compute() finishes, by returning or by raising a domain error
\* during propagation, every node's stored state and the live interventions
\* map are what they were immediately before the call.
C1_ComputeRestores ==
    lastCf.called =>
        /\ DOMAIN CM.nodes = DOMAIN lastCf.before.nodes
        /\ StoredStates(CM.nodes) = StoredStates(lastCf.before.nodes)
        /\ CM.interventions = lastCf.before.interventions

\* A compute() that raised after propagation had already changed a stored state.
C1_Witness ==
    /\ lastCf.called
    /\ lastCf.threw
    /\ StoredStates(lastCf.tried.nodes) # StoredStates(lastCf.before.nodes)

\* The nodes reachable from node n along edges (n included).
RECURSIVE ReachFrom(_, _)
ReachFrom(ed, S) ==
    LET T == S \cup {e \in NodeNames :
                        \E c \in S : c \in DOMAIN ed /\ EdgeIndex(ed[c], e, 1) # 0}
    IN  IF T = S THEN S ELSE ReachFrom(ed, T)

MechOf(ed, cause, effect) == ed[cause][EdgeIndex(ed[cause], effect, 1)][2]

\* compute() has returned normally from a single pending intervention on a node.
SinglePending ==
    /\ lastCf.called
    /\ ~lastCf.threw
    /\ Len(lastCf.pending) = 1
    /\ lastCf.pending[1][1] \in DOMAIN lastCf.before.nodes

-----------------------------------------------------------------------------
(* intervene() followed through the iterations of its propagation loop *)

InterveneCall(variable, state) ==
    /\ CanCall
    /\ heap' = SetCM([CM EXCEPT !.interventions = MapSet(@, variable, state)])
    /\ queue' = <<variable>>
    /\ visited' = {}
    /\ applied' = [n \in NodeNames |-> 0]
    /\ pc' = "propagate"
    /\ calls' = calls + 1
    /\ UNCHANGED <<frames, trail, realities, activeReality, knowledgeBase, lastCf,
                   engineVars, written, writes>>

LoopState ==
    [nodes |-> CM.nodes, queue |-> queue, visited |-> visited, threw |-> FALSE,
     walked |-> FALSE]

\* One iteration of the while-loop; an error raised by _updateNodeState ends
\* the call.
PropagateStep ==
    /\ pc = "propagate"
    /\ queue # <<>>
    /\ LET L == PropIter(CM.edges, CM.interventions, LoopState) IN
       /\ heap' = SetCM([CM EXCEPT !.nodes = L.nodes])
       /\ queue' = IF L.threw THEN <<>> ELSE L.queue
       /\ visited' = IF L.threw THEN {} ELSE L.visited
       /\ pc' = IF L.threw THEN "idle" ELSE "propagate"
       /\ applied' = IF L.walked THEN [applied EXCEPT ![Head(queue)] = @ + 1]
                     ELSE applied
    /\ UNCHANGED <<frames, trail, realities, activeReality, knowledgeBase, lastCf, calls,
                   engineVars, written, writes>>

\* The queue is empty: the loop ends and intervene() returns.
PropagateReturn ==
    /\ pc = "propagate"
    /\ queue = <<>>
    /\ pc' = "idle"
    /\ visited' = {}
    /\ UNCHANGED <<frames, trail, heap, realities, activeReality, knowledgeBase, queue, applied, lastCf, calls,
                   engineVars, written, writes>>

NextProp ==
    \/ \E c \in NodeNames, e \in NodeNames, m \in Mechs : Causes(c, e, m)
    \/ \E v \in NodeNames, d \in Domains : StateSpace(v, d)
    \/ \E v \in NodeNames, s \in Values : AssertState(v, s)
    \/ \E v \in NodeNames, s \in Values : InterveneCall(v, s)
    \/ PropagateStep
    \/ PropagateReturn

\* The propagation loop is synchronous code: once entered it keeps running.
SpecProp == InitCf /\ [][NextProp]_vars /\ WF_vars(PropagateStep \/ PropagateReturn)

\* C6: on every finite causal graph, cycles and self-loops included,
\* intervene(n, v) terminates, and within one propagation call each node has
\* its outgoing mechanisms applied at most once.
C6_PropagationTerminates ==
    /\ [](\A n \in NodeNames : applied[n] <= 1)
    /\ ((pc = "propagate") ~> (pc = "idle"))

\* A node that was already visited is at the head of the queue again: the
\* propagation has gone round a cycle.
C6_Witness ==
    /\ pc = "propagate"
    /\ queue # <<>>
    /\ Head(queue) \in visited
    /\ applied[Head(queue)] = 1

-----------------------------------------------------------------------------
(* The facade: realities, facts, rules and queries *)

\* Realities created in one run.
MaxRealities == 2
\* isA / hasA / addRule calls in one run.
MaxWrites == 4
\* query / infer calls in one run.
MaxQueries == 2
\* The persons that facts are about.
MaxPeople == 3
\* Frames the call stack has room for: one more than the longest chain needs.
StackLimit == MaxPeople + 1

PeopleNames == <<"alice", "bob", "carol", "dave", "erin">>
People == {PeopleNames[i] : i \in 1..MaxPeople}

RealityNames == {"A", "B"}

\* The two clauses of the ancestor rule.
RuleDirect == <<<<"ancestor", "$X", "$Y">>, <<<<"hasA", "$Y", "parent", "$X">>>>>>
RuleRecursive ==
    <<<<"ancestor", "$X", "$Z">>,
      <<<<"hasA", "$Z", "parent", "$Y">>, <<"ancestor", "$X", "$Y">>>>>>

\* The state after construction: no Reality, nothing known.
InitFacade ==
    /\ heap = <<>>
    /\ realities = EmptyMap
    /\ activeReality = NoReality
    /\ knowledgeBase = <<>>
    /\ rules = <<>>
    /\ context = NewContext
    /\ written = <<>>
    /\ last = NoCall
    /\ writes = 0
    /\ asked = 0
    /\ calls = 0
    /\ queue = <<>>
    /\ visited = {}
    /\ pc = "idle"
    /\ applied = [n \in NodeNames |-> 0]
    /\ lastCf = NoCf
    /\ frames = <<>>
    /\ trail = NoTrail

Idle == pc = "idle" /\ ~lastCf.called /\ frames = <<>>

\* The call just made: its operation, its arguments and what it returned, the
\* Reality that was active and this.context when it was made.
Called(op, goal, args, res) ==
    [op |-> op, goal |-> goal, args |-> args, res |-> res, by |-> activeReality,
     before |-> context]

CreateReality(name) ==
    /\ Idle
    /\ Len(heap) < MaxRealities
    /\ heap' = Append(heap, NewReality(name))
    /\ realities' = MapSet(realities, name, Len(heap) + 1)
    /\ activeReality' = createReality(activeReality, Len(heap) + 1)
    /\ written' = Append(written, [by |-> NothingWritten,
                                   others |-> [kb |-> knowledgeBase, rules |-> rules]])
    /\ last' = Called("createReality", name, <<>>, RVal(Str(name)))
    /\ UNCHANGED <<frames, trail, knowledgeBase, rules, context, writes, asked, calls, causalVars>>

SwitchReality(name) ==
    /\ Idle
    /\ activeReality' = switchReality(realities, activeReality, name)
    /\ last' = Called("switchReality", name, <<>>,
                      RBool(switchRealityReturns(realities, name)))
    /\ UNCHANGED <<frames, trail, heap, realities, knowledgeBase, rules, context, written, writes,
                   asked, calls, causalVars>>

\* isA(entity, category), as one of at most bound writes of the run.
IsAWithin(bound, entity, category) ==
    /\ Idle
    /\ writes < bound
    /\ knowledgeBase' = isA(knowledgeBase, entity, category)
    /\ written' = Record("isA", <<entity, category>>)
    /\ writes' = writes + 1
    /\ last' = NoCall
    /\ UNCHANGED <<frames, trail, heap, realities, activeReality, rules, context, asked, calls,
                   causalVars>>

IsA(entity, category) == IsAWithin(MaxWrites, entity, category)

HasA(entity, property, value) ==
    /\ Idle
    /\ writes < MaxWrites
    /\ knowledgeBase' = hasA(knowledgeBase, entity, property, value)
    /\ written' = Record("hasA", <<entity, property, value>>)
    /\ writes' = writes + 1
    /\ last' = NoCall
    /\ UNCHANGED <<frames, trail, heap, realities, activeReality, rules, context, asked, calls,
                   causalVars>>

\* addRule(head, ...body), as one of at most bound writes of the run.
AddRuleWithin(bound, rule) ==
    /\ Idle
    /\ writes < bound
    /\ rules' = addRule(rules, rule[1], rule[2])
    /\ written' = Record("addRule", rule)
    /\ writes' = writes + 1
    /\ last' = NoCall
    /\ UNCHANGED <<frames, trail, heap, realities, activeReality, knowledgeBase, context, asked,
                   calls, causalVars>>

AddRule(rule) == AddRuleWithin(MaxWrites, rule)

\* What the engine reads in the current state.
EngineNow ==
    Engine(knowledgeBase, rules, activeReality # NoReality,
           IF activeReality # NoReality THEN CM.nodes ELSE EmptyMap)

Query(goal, args) ==
    /\ Idle
    /\ asked < MaxQueries
    /\ LET q == query(EngineNow, context, goal, args, StackLimit) IN
       /\ context' = q.ctx
       /\ last' = Called("query", goal, args, q.res)
    /\ asked' = asked + 1
    /\ UNCHANGED <<frames, trail, heap, realities, activeReality, knowledgeBase, rules, written,
                   writes, calls, causalVars>>

Infer(goal, args) ==
    /\ Idle
    /\ asked < MaxQueries
    /\ LET q == infer(EngineNow, context, goal, args, StackLimit) IN
       /\ context' = q.ctx
       /\ last' = Called("infer", goal, args, q.res)
    /\ asked' = asked + 1
    /\ UNCHANGED <<frames, trail, heap, realities, activeReality, knowledgeBase, rules, written,
                   writes, calls, causalVars>>

\* Facts asserted and read back while Realities are created and switched.
FactNames == {"a", "b"}

NextReality ==
    \/ \E name \in RealityNames : CreateReality(name)
    \/ \E name \in RealityNames \cup {"C"} : SwitchReality(name)
    \/ \E f \in FactNames, s \in Values : AssertState(f, s)
    \/ \E f \in FactNames : Query(f, <<>>)

SpecReality == InitFacade /\ [][NextReality]_vars

\* Reality r has had fact f asserted while it was active, and the value last
\* asserted then.
HasAsserted(r, f) == Has(written[r].by.kb, <<f>>)
AssertedIn(r, f) == Get(written[r].by.kb, <<f>>).value

\* C2: whatever the order of the assertions and of the switches between
\* Realities, query(f) returns the value that was last asserted for f while
\* the Reality that is active now was active.
C2_RealityIsolation ==
    (/\ last.op = "query"
     /\ last.goal \in FactNames
     /\ last.args = <<>>
     /\ last.by # NoReality
     /\ HasAsserted(last.by, last.goal))
    => last.res = RVal(FromAtom(AssertedIn(last.by, last.goal)))

\* A query answered with the active Reality's own value after another Reality
\* has asserted a different value for the same fact, and has done so later.
C2_Witness ==
    /\ last.op = "query"
    /\ last.goal \in FactNames
    /\ last.by # NoReality
    /\ HasAsserted(last.by, last.goal)
    /\ last.res = RVal(FromAtom(AssertedIn(last.by, last.goal)))
    /\ \E r \in 1..Len(heap) :
           /\ r # last.by
           /\ HasAsserted(r, last.goal)
           /\ AssertedIn(r, last.goal) # AssertedIn(last.by, last.goal)
           /\ Get(knowledgeBase, <<last.goal>>).value = AssertedIn(r, last.goal)

\* Facts and rules written and queried while Realities are created and switched.
FacadeQueries ==
    {<<"isA", <<Str("alice"), Str("human")>>>>,
     <<"hasA", <<Str("alice"), Str("parent")>>>>,
     <<"ancestor", <<Str("bob"), Str("alice")>>>>,
     <<"head", <<Lst(<<Num(1)>>), Str("$X")>>>>}

NextFacade ==
    \/ \E name \in RealityNames : CreateReality(name)
    \/ \E name \in RealityNames \cup {"C"} : SwitchReality(name)
    \/ IsA("alice", "human")
    \/ HasA("alice", "parent", "bob")
    \/ AddRule(RuleDirect)
    \/ \E q \in FacadeQueries : Query(q[1], q[2])
    \/ \E q \in FacadeQueries : Infer(q[1], q[2])

SpecFacade == InitFacade /\ [][NextFacade]_vars

\* What the call just made returns when nothing that was written while
\* Reality r was active is there.
ResultWithout(r) ==
    LET E == Engine(written[r].others.kb, written[r].others.rules, TRUE,
                    heap[last.by].causalModel.nodes)
    IN  IF last.op = "query"
        THEN query(E, last.before, last.goal, last.args, StackLimit).res
        ELSE infer(E, last.before, last.goal, last.args, StackLimit).res

\* C3 as stated: a query or infer made in one Reality returns what it would
\* return if the isA, hasA and addRule calls made while any other Reality
\* was active had never happened.
C3_AsStated ==
    (last.op \in {"query", "infer"} /\ last.by # NoReality)
    => \A r \in 1..Len(heap) : r # last.by => last.res = ResultWithout(r)

-----------------------------------------------------------------------------
(* The unifier called on terms of bounded size *)

\* The longest list.
MaxLen == 2
\* The deepest nesting of lists.
MaxNest == 2
\* unify calls made on one environment.
MaxUnify == 2

Atoms == {Str("$X"), Str("$Y"), Num(1)}

RECURSIVE TermsUpTo(_)
TermsUpTo(d) ==
    IF d = 0 THEN Atoms
    ELSE LET T == TermsUpTo(d - 1) IN
         T \cup {Lst(l) : l \in UNION {[1..n -> T] : n \in 0..MaxLen}}

Terms == TermsUpTo(MaxNest)
FlatTerms == TermsUpTo(MaxNest - 1)

Unify(term1, term2) ==
    /\ asked < MaxUnify
    /\ LET u == unify(context.bindings, term1, term2) IN
       /\ context' = [context EXCEPT !.bindings = u.bindings]
       /\ last' = Called("unify", "", <<term1, term2>>, RBool(u.ok))
    /\ asked' = asked + 1
    /\ UNCHANGED <<frames, trail, heap, realities, activeReality, knowledgeBase, rules, written,
                   writes, calls, causalVars>>

\* Each call has a variable or a number on one side and any term on the
\* other, or a list of variables and numbers on both sides.
NextUnify ==
    \/ \E term1 \in Atoms, term2 \in Terms : Unify(term1, term2)
    \/ \E term1 \in Terms, term2 \in Atoms : Unify(term1, term2)
    \/ \E term1 \in FlatTerms, term2 \in FlatTerms : Unify(term1, term2)

SpecUnify == InitFacade /\ [][NextUnify]_vars

\* The variable occurs in the term, at any depth.
RECURSIVE Inside(_, _)
Inside(variable, term) ==
    \/ term = variable
    \/ /\ isList(term)
       /\ \E i \in 1..Len(term.l) : Inside(variable, term.l[i])

\* The binding of a variable in an environment, or none.
BindingOf(bindings, variable) ==
    IF Has(bindings, VarName[variable.s]) THEN <<Get(bindings, VarName[variable.s])>>
    ELSE <<>>

\* The call just made was unify(V, L) or unify(L, V), V being argument i,
\* with the variable V somewhere inside the list L.
OccursCase(i) ==
    /\ last.op = "unify"
    /\ isVariable(last.args[i])
    /\ isList(last.args[3 - i])
    /\ Inside(last.args[i], last.args[3 - i])

\* C5: unify of a variable with a list that contains the variable, whichever
\* side the variable is on and however deep it lies, returns (the model's
\* evaluation of it is finite), reports failure, and leaves the binding of
\* the variable as it was.
C5_OccursCheck ==
    \A i \in {1, 2} :
        OccursCase(i)
        => /\ last.res = RBool(FALSE)
           /\ BindingOf(context.bindings, last.args[i])
                  = BindingOf(last.before.bindings, last.args[i])

\* The variable lies inside a list that is itself an element of the list,
\* and the call has failed.
C5_Witness ==
    /\ OccursCase(2)
    /\ \A i \in 1..Len(last.args[1].l) : last.args[1].l[i] # last.args[2]
    /\ last.res = RBool(FALSE)
    /\ BindingOf(last.before.bindings, last.args[2]) # <<>>
-----------------------------------------------------------------------------
(* Facts, rules and queries in one Reality *)

\* The queries drawn: the ancestor rule on persons and a variable, stored
\* properties, and built-in arithmetic, comparison and list predicates.
EngineQueries ==
    {<<"ancestor", <<Str(a), Str(d)>>>> : a, d \in People \cup {"$X"}}
    \cup {<<"hasA", <<Str("alice"), Str("parent")>>>>,
          <<"hasA", <<Str("alice"), Str("parent"), Str("$X")>>>>,
          <<"subtract", <<Num(2), Num(1), Str("$X")>>>>,
          <<"subtract", <<Num(2), Num(1), Num(1)>>>>,
          <<"greater", <<Num(2), Num(1)>>>>,
          <<"greater", <<Num(1), Num(2)>>>>,
          <<"head", <<Lst(<<Num(1)>>), Str("$X")>>>>}

NextQuery ==
    \/ \E i, j \in 1..MaxPeople :
           i < j /\ HasA(PeopleNames[i], "parent", PeopleNames[j])
    \/ \E rule \in {RuleDirect, RuleRecursive} : AddRule(rule)
    \/ \E q \in EngineQueries : Query(q[1], q[2])

\* One Reality has been created and is active.  A parent is drawn from the
\* persons later in PeopleNames, which gives every acyclic parent relation up
\* to the names.
SpecQuery == InitCf /\ [][NextQuery]_vars
\* The parent stored for a person, or null.
ParentOf(kb, x) ==
    IF Has(kb, <<"hasA", x, "parent">>) THEN Get(kb, <<"hasA", x, "parent">>).value
    ELSE NULL

\* The persons reached from d by one to k parent links.
RECURSIVE Climb(_, _, _)
Climb(kb, d, k) ==
    IF k = 0 \/ ParentOf(kb, d) = NULL THEN {}
    ELSE {ParentOf(kb, d)} \cup Climb(kb, ParentOf(kb, d), k - 1)

AncestorsOf(d) == Climb(knowledgeBase, d, MaxPeople)

Acyclic == \A x \in People : x \notin AncestorsOf(x)

\* Both clauses of the ancestor rule are registered, and no other rule.
AncestorRuleLoaded == Elems(rules) = {RuleDirect, RuleRecursive}

NoVariable(args) == \A i \in 1..Len(args) : ~isVariable(args[i])

\* The binding Maps a result holds.
Solutions(res) ==
    CASE res.kind = "map" -> <<res.m>>
      [] res.kind = "list" -> res.l
      [] OTHER -> <<>>

\* The call just made was query('ancestor', a, d) on persons a and d.
GroundAncestorQuery ==
    /\ last.op = "query"
    /\ last.goal = "ancestor"
    /\ Len(last.args) = 2
    /\ last.args[1].s \in People
    /\ last.args[2].s \in People

\* C8: with the two-clause ancestor rule and acyclic parent facts,
\* query('ancestor', a, d) on ground a and d is true exactly when a is
\* reached from d by one or more parent links.
C8_AncestorGround ==
    (GroundAncestorQuery /\ AncestorRuleLoaded /\ Acyclic)
    => last.res = RBool(last.args[1].s \in AncestorsOf(last.args[2].s))

\* A ground ancestor query answered true over two parent links.
C8_Witness ==
    /\ GroundAncestorQuery
    /\ AncestorRuleLoaded
    /\ Acyclic
    /\ last.res = RBool(TRUE)
    /\ ParentOf(knowledgeBase, last.args[2].s) # last.args[1].s
    /\ ParentOf(knowledgeBase, ParentOf(knowledgeBase, last.args[2].s)) = last.args[1].s

\* C4 as stated: query('ancestor', '$X', d) on a person d with N >= 1
\* ancestors yields N solutions, pairwise distinct, one for each ancestor.
C4_AsStated ==
    (/\ last.op = "query"
     /\ last.goal = "ancestor"
     /\ Len(last.args) = 2
     /\ last.args[1] = Str("$X")
     /\ last.args[2].s \in People
     /\ AncestorRuleLoaded
     /\ Acyclic
     /\ AncestorsOf(last.args[2].s) # {})
    => LET sols == Solutions(last.res) IN
       /\ Len(sols) = Cardinality(AncestorsOf(last.args[2].s))
       /\ \A i, j \in 1..Len(sols) : i # j => sols[i] # sols[j]
       /\ {Get(sols[i], "X").s : i \in 1..Len(sols)} = AncestorsOf(last.args[2].s)

\* C9 as stated: a query without variables of a built-in predicate or of the
\* ancestor rule, made after whatever queries came before, returns a boolean.
C9_AsStated ==
    (/\ last.op = "query"
     /\ isPredicate(last.goal) \/ last.goal = "ancestor"
     /\ NoVariable(last.args))
    => last.res.kind = "bool"

\* C10 as stated: a query with a variable among its arguments returns false,
\* or one binding Map, or an array of two or more binding Maps; the case of a
\* call that throws is left aside.
C10_AsStated ==
    (/\ last.op = "query"
     /\ ~NoVariable(last.args)
     /\ last.res.kind # "throw")
    => \/ last.res = RBool(FALSE)
       \/ last.res.kind = "map"
       \/ last.res.kind = "list" /\ Len(last.res.l) > 1

\* What the call just made returns from a context that holds no binding.
ResultFresh == query(EngineNow, NewContext, last.goal, last.args, StackLimit).res

\* C11 as stated: a top-level query returns what it returns when no query
\* ran before it; no binding of an earlier query is in its result.
C11_AsStated == last.op = "query" => last.res = ResultFresh

-----------------------------------------------------------------------------
(* Claims about the facade's Realities and its guard (SpecFacade) *)

\* The step is a call of query.
QueryStep == asked' = asked + 1 /\ last'.op = "query"

C13_SwitchReality ==
    [][last'.op = "switchReality"
       => /\ IF last'.goal \in DOMAIN realities
             THEN last'.res = RBool(TRUE) /\ activeReality' = realities[last'.goal]
             ELSE last'.res = RBool(FALSE) /\ activeReality' = activeReality
          /\ UNCHANGED <<heap, realities, knowledgeBase, rules, context>>]_vars

\* A switch has returned true and has changed which Reality is active.
C13_Witness ==
    /\ last.op = "switchReality"
    /\ last.res = RBool(TRUE)
    /\ last.by # NoReality
    /\ last.by # activeReality
    /\ activeReality = realities[last.goal]

\* C14: createReality(name) puts a new Reality with an empty causal model in
\* the table under name, leaves the Realities that exist and the other names
\* of the table as they are, makes the new Reality active when none was
\* active, and leaves the active Reality active otherwise.
C14_CreateReality ==
    [][last'.op = "createReality"
       => /\ heap' = Append(heap, NewReality(last'.goal))
          /\ realities' = MapSet(realities, last'.goal, Len(heap'))
          /\ activeReality' = IF activeReality = NoReality THEN Len(heap')
                              ELSE activeReality]_vars

\* A Reality has been created while another one was active, and that one has
\* stayed active.
C14_Witness ==
    /\ last.op = "createReality"
    /\ last.by # NoReality
    /\ activeReality = last.by
    /\ realities[last.goal] = Len(heap)
    /\ realities[last.goal] # activeReality

-----------------------------------------------------------------------------
(* The built-in predicates queried on numbers and lists of bounded size *)

\* The integers of the arithmetic queries run from -MaxInt to MaxInt.
MaxInt == 1
\* The longest list of the list queries.
MaxList == 2

Ints == (0 - MaxInt)..MaxInt
IntArgs == {Num(i) : i \in Ints}

\* The lists of at most MaxList elements over the elements 1 and 2.
ListElems == {Num(1), Num(2)}
Lists == {Lst(l) : l \in UNION {[1..n -> ListElems] : n \in 0..MaxList}}

PredicateQueries ==
    {<<"add", <<x, y, z>>>> : x \in IntArgs \cup {Str("$X")},
                              y \in IntArgs \cup {Str("$Y")},
                              z \in IntArgs \cup {Str("$R")}}
    \cup {<<"cons", <<h, l, Str("$R")>>>> : h \in ListElems, l \in Lists}
    \cup {<<"head", <<l, Str("$F")>>>> : l \in Lists}
    \cup {<<"tail", <<l, Str("$T")>>>> : l \in Lists}
    \cup {<<"append", <<l, m, Str("$R")>>>> : l \in Lists, m \in Lists}

\* One Reality is active; built-ins are queried one after the other.
NextPredicates == \E q \in PredicateQueries : Query(q[1], q[2])

SpecPredicates == InitCf /\ [][NextPredicates]_vars

\* The call just made was query(goal, ...) of a built-in on three arguments.
Queried(goal) == last.op = "query" /\ last.goal = goal

\* The result is a binding Map in which the variable is bound to the number n.
BindsNumber(res, variable, n) ==
    /\ res.kind = "map"
    /\ Has(res.m, VarName[variable.s])
    /\ Get(res.m, VarName[variable.s]).k = "num"
    /\ Get(res.m, VarName[variable.s]).n = n

C16_AsStated ==
    (/\ Queried("add")
     /\ isVariable(last.args[1])
     /\ isVariable(last.args[2])
     /\ last.args[3].k = "num")
    => /\ last.res.kind = "map"
       /\ Has(last.res.m, "X") /\ Get(last.res.m, "X").k = "num"
       /\ Has(last.res.m, "Y") /\ Get(last.res.m, "Y").k = "num"
       /\ Get(last.res.m, "X").n + Get(last.res.m, "Y").n = last.args[3].n

\* The result is a binding Map in which the variable is bound to the Term of
\* the value.
Binds(res, variable, value) ==
    /\ res.kind = "map"
    /\ Has(res.m, VarName[variable.s])
    /\ Get(res.m, VarName[variable.s]) = Term(value)

-----------------------------------------------------------------------------
(* Claim about the state-space domains (SpecCf) *)

\* C20 as stated: every causal node with a declared state space holds a
\* stored state that is one of its members; a node that has not been given a
\* state yet is left aside.
C20_AsStated ==
    \A n \in DOMAIN CM.nodes :
        (CM.nodes[n].stateSpace # NoStateSpace /\ CM.nodes[n].state # NULL)
        => CM.nodes[n].state \in CM.nodes[n].stateSpace

-----------------------------------------------------------------------------
(* Claim about the solution limit: one category filled member by member *)

\* Members entered into the category: one more than maxDepth.
MaxFacts == 101

\* The i-th member: p1, p2, ...
Member(i) == "p" \o ToString(i)

\* The number of members of the category in the knowledge base.
MembersOf(kb) ==
    IF Has(kb, <<"isA", "human">>) THEN Len(Get(kb, <<"isA", "human">>).elems) ELSE 0

\* addRule('$F:$X', 'isA:p1:human'): a rule whose head the query '$F', '$X'
\* names; it holds once p1 is a member and yields the one solution {X: '$X'}.
RuleAny == <<<<"$F", "$X">>, <<<<"isA", Member(1), "human">>>>>>

NextSolutions ==
    \/ /\ MembersOf(knowledgeBase) < MaxFacts
       /\ IsAWithin(MaxFacts + 1, Member(MembersOf(knowledgeBase) + 1), "human")
    \/ rules = <<>> /\ AddRuleWithin(MaxFacts + 1, RuleAny)
    \/ Query("$F", <<Str("$X")>>)

\* ps.query('$F', '$X') matches the pattern '$F:$X' against every key of two
\* segments: each member of the category is one solution from facts.
SpecSolutions == InitCf /\ [][NextSolutions]_vars

\* The solutions the query '$F', '$X' has in the current state: one per
\* member, and the one of the rule when its body holds.
AcceptedSolutions ==
    MembersOf(knowledgeBase)
        + (IF rules # <<>> /\ MembersOf(knowledgeBase) >= 1 THEN 1 ELSE 0)

SolutionLimitExceeded == RThrow("Maximum number of solutions exceeded")

\* C19 as stated: a query raises the solution-limit error exactly when the
\* number of its accepted solutions exceeds maxDepth; with at most maxDepth
\* solutions, from facts or from rules, it raises nothing and returns a list of
\* all of them (the one Map when there is one, false when there is none).
C19_AsStated ==
    (last.op = "query" /\ last.goal = "$F")
    => IF AcceptedSolutions > maxDepth
       THEN last.res = SolutionLimitExceeded
       ELSE /\ last.res # SolutionLimitExceeded
            /\ AcceptedSolutions > 1
               => last.res.kind = "list" /\ Len(last.res.l) = AcceptedSolutions
            /\ AcceptedSolutions = 1 => last.res.kind = "map"
            /\ AcceptedSolutions = 0 => last.res = RBool(FALSE)

-----------------------------------------------------------------------------
(* A query followed call by call: the activations of query on the call stack *)

\* Activations of query the call stack has room for: more than maxDepth.
MaxFrames == 102

\* An activation of query(goal, ...args) that has not run yet.  results is
\* its Map of solutions, i the rule _evaluateGoal is at, phase 1 the rule's
\* first condition and phase 2 the remaining ones, j the condition that
\* every() is at, bindings the rule's Map; got is what its nested query
\* returned or threw, before is this.context at the time of the call.
EnterFrame(goal, args, before) ==
    [goal |-> goal, args |-> args, results |-> <<>>, i |-> 0, phase |-> 0,
     j |-> 0, bindings |-> <<>>, status |-> "enter", got |-> RBool(FALSE),
     before |-> before]

\* The rules whose name is the goal of the activation.
rulesFor(E, fr) == SelectSeq(E.rules, LAMBDA r : matchesRule(fr.goal, r[1]))

\* The array that _evaluateRuleBody walks in the phase the activation is in.
conditionsOf(E, fr) ==
    IF fr.phase = 1 THEN <<rulesFor(E, fr)[fr.i][2][1]>>
    ELSE Tail(rulesFor(E, fr)[fr.i][2])

\* The activation calls this.query(goal, ...args) and waits for it.
Calls(ctx, fr, goal, args) ==
    [kind |-> "call", ctx |-> ctx, fr |-> [fr EXCEPT !.status = "wait"],
     goal |-> goal, args |-> args, res |-> RBool(FALSE)]

\* The activation ends, q being what it returns or throws and this.context
\* after its finally block.
Returns(fr, q) ==
    [kind |-> "return", ctx |-> q.ctx, fr |-> fr, goal |-> "", args |-> <<>>,
     res |-> q.res]

\* The activation has stored a solution: the while loop calls findSolution
\* again.
Again(ctx, fr) ==
    [kind |-> "again", ctx |-> ctx, fr |-> [fr EXCEPT !.status = "again"],
     goal |-> "", args |-> <<>>, res |-> RBool(FALSE)]

\* The query goes down the general path: a Reality is active and the goal is
\* no isA / hasA, no built-in and no causal node asked for its value.
generalPath(E, goal, args) ==
    /\ E.active
    /\ goal \notin {"isA", "hasA"}
    /\ ~isPredicate(goal)
    /\ ~(goal \in DOMAIN E.nodes
         /\ (Len(args) = 0 \/ (Len(args) = 1 /\ isVariable(args[1]))))

RECURSIVE runRules(_, _, _, _)
RECURSIVE runBody(_, _, _)
RECURSIVE runConditions(_, _, _, _)
RECURSIVE runCondition(_, _, _, _)
RECURSIVE runPhaseEnd(_, _, _, _)
RECURSIVE runSolution(_, _, _, _)

\* The callback of conditions.every(...) on condition fr.j, up to the nested
\* this.query(...parts) if the condition makes one.
runCondition(E, ctx, fr, parts) ==
    LET expectedValue == Part(parts, 3)
        key == <<"hasA", Part(parts, 1), Part(parts, 2)>>
    IN  CASE parts[1] = "isA" ->
                 IF queryIsA(E.kb, Part(parts, 1), Part(parts, 2))
                 THEN runConditions(E, ctx, fr, fr.j + 1)
                 ELSE runPhaseEnd(E, ctx, fr, FALSE)
          [] parts[1] = "hasA" ->
                 IF ~Has(E.kb, key) THEN runPhaseEnd(E, ctx, fr, FALSE)
                 ELSE IF expectedValue # UNDEFINED /\ expectedValue # ""
                         /\ ~startsWithDollar(expectedValue)
                 THEN IF areSemanticallySimilar(Get(E.kb, key).value, expectedValue)
                      THEN runConditions(E, ctx, fr, fr.j + 1)
                      ELSE runPhaseEnd(E, ctx, fr, FALSE)
                 ELSE IF expectedValue # UNDEFINED /\ expectedValue # ""
                 THEN runConditions(E, ctx,
                                    [fr EXCEPT !.bindings =
                                         Put(@, VarName[expectedValue],
                                             FromAtom(Get(E.kb, key).value))],
                                    fr.j + 1)
                 ELSE runConditions(E, ctx, fr, fr.j + 1)
          [] parts[1] = "ancestor" ->
                 Calls(ctx, fr, parts[1],
                       [k \in 1..(Len(parts) - 1) |-> Str(parts[k + 1])])
          [] OTHER -> runPhaseEnd(E, ctx, fr, FALSE)

\* conditions.every(...) from condition j on.
runFunction(E, fr, j, f) ==
    IF f.ok THEN runConditions(E, f.ctx, fr, j + 1) ELSE runPhaseEnd(E, f.ctx, fr, FALSE)

runConditions(E, ctx, fr, j) ==
    IF j > Len(conditionsOf(E, fr)) THEN runPhaseEnd(E, ctx, fr, TRUE)
    ELSE IF isFunction(conditionsOf(E, fr)[j])
    THEN runFunction(E, fr, j, callFunction(ctx, conditionsOf(E, fr)[j]))
    ELSE runCondition(E, ctx, [fr EXCEPT !.j = j],
                      substituteVariables(conditionsOf(E, fr)[j], fr.bindings))

\* _evaluateRuleBody called with the rule's Map: the Map is merged into
\* this.context and the conditions of the phase are walked.
runBody(E, ctx, fr) ==
    runConditions(E, [ctx EXCEPT !.bindings = mergeBindings(@, fr.bindings, 1)],
                  fr, 1)

\* _evaluateRuleBody has returned ok: after the first condition the remaining
\* ones follow, a rule that holds ends _evaluateGoal, one that fails gives
\* way to the next rule.
runPhaseEnd(E, ctx, fr, ok) ==
    IF ~ok THEN runRules(E, ctx, fr, fr.i + 1)
    ELSE IF fr.phase = 1 THEN runBody(E, ctx, [fr EXCEPT !.phase = 2])
    ELSE runSolution(E, ctx, fr, TRUE)

\* The for-loop of _evaluateGoal from rule i on.
runRules(E, ctx, fr, i) ==
    IF i > Len(rulesFor(E, fr)) THEN runSolution(E, ctx, fr, FALSE)
    ELSE IF Len(rulesFor(E, fr)[i][2]) = 0
    THEN Returns(fr, solutionsResult(
                         [ctx |-> ctx, results |-> fr.results,
                          threw |-> "TypeError: Cannot read properties of undefined"],
                         FALSE))
    ELSE runBody(E, ctx,
                 [fr EXCEPT !.i = i, !.phase = 1,
                            !.bindings = substituteArgs(fr.args, rulesFor(E, fr)[i][1])])

\* findSolution after _evaluateGoal has returned ok, and the body of the
\* while loop: a new solution is stored and the loop goes round.
runSolution(E, ctx, fr, ok) ==
    IF ok /\ ~hasSolution(fr.results, ctx.bindings)
    THEN IF Len(fr.results) + 1 >= maxDepth
         THEN Returns(fr, solutionsResult(
                              [ctx |-> ctx, results |-> Append(fr.results, ctx.bindings),
                               threw |-> "Maximum number of solutions exceeded"],
                              FALSE))
         ELSE Again(ctx, [fr EXCEPT !.results = Append(@, ctx.bindings)])
    ELSE Returns(fr, solutionsResult(
                         [ctx |-> ctx, results |-> fr.results, threw |-> ""],
                         \E k \in 1..Len(fr.args) : isVariable(fr.args[k])))

\* query from its first line up to its first nested query or its end.  Off the
\* general path it makes no nested query and ends at once.
runEnter(E, ctx, fr) ==
    IF ~generalPath(E, fr.goal, fr.args)
    THEN Returns(fr, query(E, ctx, fr.goal, fr.args, 1))
    ELSE runRules(E, [newUnificationContext(ctx) EXCEPT !.depth = 1],
                  [fr EXCEPT !.results =
                       directFacts(E.kb,
                                   <<fr.goal>> \o (IF Len(fr.args) = 0 THEN <<"">>
                                                   ELSE [k \in 1..Len(fr.args) |->
                                                            StringOf(fr.args[k])]),
                                   1)],
                  1)

\* The activation goes on after its nested query: what that one threw goes
\* through the finally block and out of this one, a truthy result lets
\* every() go on, a falsy one ends it.
runResume(E, ctx, fr) ==
    IF fr.got.kind = "throw"
    THEN Returns(fr, solutionsResult(
                         [ctx |-> ctx, results |-> fr.results, threw |-> fr.got.msg],
                         FALSE))
    ELSE IF Truthy(fr.got) THEN runConditions(E, ctx, fr, fr.j + 1)
    ELSE runPhaseEnd(E, ctx, fr, FALSE)

\* The activation on top of the call stack, and what it does next.
TopFrame == frames[Len(frames)]
Segment ==
    IF TopFrame.status = "enter" THEN runEnter(EngineNow, context, TopFrame)
    ELSE IF TopFrame.status = "again" THEN runRules(EngineNow, context, TopFrame, 1)
    ELSE runResume(EngineNow, context, TopFrame)

\* ps.query(goal, ...args) is called: its activation is the only one.
QueryEnter(goal, args) ==
    /\ Idle
    /\ asked < MaxQueries
    /\ frames' = <<EnterFrame(goal, args, context)>>
    /\ asked' = asked + 1
    /\ last' = NoCall
    /\ UNCHANGED <<trail, heap, realities, activeReality, knowledgeBase, rules, context,
                   written, writes, calls, causalVars>>

\* The activation on top reaches a nested this.query(...parts): the new
\* activation goes on top of it.
QueryNest ==
    /\ frames # <<>>
    /\ Segment.kind = "call"
    /\ Len(frames) < MaxFrames
    /\ frames' = Append([frames EXCEPT ![Len(frames)] = Segment.fr],
                        EnterFrame(Segment.goal, Segment.args, Segment.ctx))
    /\ context' = Segment.ctx
    /\ UNCHANGED <<trail, heap, realities, activeReality, knowledgeBase, rules, written,
                   last, writes, asked, calls, causalVars>>

\* The activation on top reaches a nested this.query(...parts) for which the
\* call stack has no room: the call throws a RangeError into it.
QueryOverflow ==
    /\ frames # <<>>
    /\ Segment.kind = "call"
    /\ Len(frames) = MaxFrames
    /\ frames' = [frames EXCEPT ![Len(frames)] =
                      [Segment.fr EXCEPT !.status = "resume",
                                         !.got = RThrow(StackOverflow)]]
    /\ context' = Segment.ctx
    /\ UNCHANGED <<trail, heap, realities, activeReality, knowledgeBase, rules, written,
                   last, writes, asked, calls, causalVars>>

\* The activation on top has stored a solution and goes round its loop.
QuerySolution ==
    /\ frames # <<>>
    /\ Segment.kind = "again"
    /\ frames' = [frames EXCEPT ![Len(frames)] = Segment.fr]
    /\ context' = Segment.ctx
    /\ UNCHANGED <<trail, heap, realities, activeReality, knowledgeBase, rules, written,
                   last, writes, asked, calls, causalVars>>

\* The activation on top returns or throws: the one below it goes on with
\* that, and the call of ps.query ends when there is none below.
QueryReturn ==
    /\ frames # <<>>
    /\ Segment.kind = "return"
    /\ context' = Segment.ctx
    /\ IF Len(frames) = 1
       THEN /\ frames' = <<>>
            /\ last' = [Called("query", TopFrame.goal, TopFrame.args, Segment.res)
                            EXCEPT !.before = TopFrame.before]
       ELSE /\ frames' = [SubSeq(frames, 1, Len(frames) - 1)
                              EXCEPT ![Len(frames) - 1] =
                                  [@ EXCEPT !.status = "resume", !.got = Segment.res]]
            /\ last' = last
    /\ UNCHANGED <<trail, heap, realities, activeReality, knowledgeBase, rules, written,
                   writes, asked, calls, causalVars>>

\* The two persons whose parents are stored, in a circle or not, and the
\* queries on the ancestor rule.
DepthPeople == {"alice", "bob"}
DepthQueries ==
    {<<"ancestor", <<Str("carol"), Str("alice")>>>>,
     <<"ancestor", <<Str("bob"), Str("alice")>>>>}

NextDepth ==
    \/ \E x, y \in DepthPeople : x # y /\ HasA(x, "parent", y)
    \/ \E rule \in {RuleDirect, RuleRecursive} : AddRule(rule)
    \/ \E q \in DepthQueries : QueryEnter(q[1], q[2])
    \/ QueryNest
    \/ QueryOverflow
    \/ QuerySolution
    \/ QueryReturn

\* One Reality is active; facts and rules are written between queries and
\* each query is followed from activation to activation.
SpecDepth == InitCf /\ [][NextDepth]_vars

-----------------------------------------------------------------------------
(* Claim about the recursion limit (SpecDepth) *)

\* The activations of query that have passed incrementDepth: those waiting
\* for a nested query and the one that has gone on after its own.
Nested == Len(SelectSeq(frames, LAMBDA fr : fr.status # "enter"))

\* C18 as stated: rule resolution never nests more than maxDepth activations
\* of query in one another, a query that would go deeper being aborted with
\* 'Maximum recursion depth exceeded'; and no query ends by exhausting the
\* call stack, which is what recursion without bound ends in.
C18_AsStated ==
    /\ Nested <= maxDepth
    /\ last.op = "query" => last.res # RThrow(StackOverflow)

-----------------------------------------------------------------------------
(* Claim about reads of an intervened node (SpecReads) *)

NextReads ==
    \/ \E c \in NodeNames, e \in NodeNames, m \in Mechs : Causes(c, e, m)
    \/ \E v \in NodeNames, s \in Values : AssertState(v, s)
    \/ \E v \in NodeNames, s \in Values : Intervene(v, s)
    \/ \E n \in NodeNames : Query(n, <<>>)
    \/ \E n \in NodeNames : Query("queryState", <<Str(n), Str("$R")>>)

\* Nodes are asserted, linked and intervened on in the live causal model, and
\* their states are read through the facade.
SpecReads == InitCf /\ [][NextReads]_vars

\* The node that the call l reads, and the state it has read: the value
\* returned by query(n), the binding of $R made by queryState.
NodeRead(l) == IF l.goal = "queryState" THEN l.args[1].s ELSE l.goal
StateRead(l) ==
    IF l.res.kind = "value" THEN l.res.v
    ELSE IF l.res.kind = "map" /\ Has(l.res.m, "R") THEN Get(l.res.m, "R")
    ELSE Undef

\* C21 as stated: while an intervention on a node n of the causal model is in
\* place, every read of n's state returns the forced value, whatever n's
\* stored state is and whatever was propagated since: CausalModel.getState(n),
\* the facade's query(n) and the queryState predicate.
C21_AsStated ==
    [][\A n \in DOMAIN CM.interventions \cap DOMAIN CM.nodes :
          /\ getState(CM.nodes, CM.interventions, n) = CM.interventions[n]
          /\ (QueryStep /\ NodeRead(last') = n)
             => StateRead(last') = Str(CM.interventions[n])]_vars

-----------------------------------------------------------------------------
(* Claim about the frame of assert (SpecCf) *)

\* The causal model of the active Reality after the step.
CMNext == heap'[activeReality'].causalModel

\* The entries of the knowledge base under keys other than key.
EntriesBut(kb, key) == SelectSeq(kb, LAMBDA e : e[1] # key)

\* C22: assert(var, value) changes only var's own stored state and var's
\* entry of the knowledge base: every other node keeps its state, var keeps
\* its parents, children and state space, the edges, the interventions and
\* every other Reality are untouched, and so no mechanism has been run, even
\* when var has outgoing causal edges.
C22_AssertFrame ==
    [][\A v \in NodeNames, s \in Values :
          AssertState(v, s)
          => /\ DOMAIN CMNext.nodes = DOMAIN CM.nodes \cup {v}
             /\ \A n \in DOMAIN CM.nodes \ {v} : CMNext.nodes[n] = CM.nodes[n]
             /\ CMNext.nodes[v].state = s
             /\ v \in DOMAIN CM.nodes
                => CMNext.nodes[v] = [CM.nodes[v] EXCEPT !.state = s]
             /\ CMNext.edges = CM.edges
             /\ CMNext.interventions = CM.interventions
             /\ \A r \in 1..Len(heap) : r # activeReality => heap'[r] = heap[r]
             /\ Get(knowledgeBase', <<v>>) = KBValue(s)
             /\ EntriesBut(knowledgeBase', <<v>>) = EntriesBut(knowledgeBase, <<v>>)
             /\ UNCHANGED <<realities, activeReality, rules, context>>]_vars

\* A node that has an outgoing edge to another node holds the state it was
\* asserted with, and that child holds a state which the edge's mechanism
\* does not give for it.
C22_Witness ==
    \E v \in DOMAIN CM.edges, c \in DOMAIN CM.nodes :
        /\ c # v
        /\ EdgeIndex(CM.edges[v], c, 1) # 0
        /\ MechOf(CM.edges, v, c) = "copy"
        /\ Has(knowledgeBase, <<v>>)
        /\ Get(knowledgeBase, <<v>>).value = CM.nodes[v].state
        /\ CM.nodes[c].state # NULL
        /\ CM.nodes[c].state # Apply("copy", CM.nodes[v].state)

-----------------------------------------------------------------------------
(* Claim about infer (SpecInfer) *)

\* addRule('happy:$X', context => ...): a rule whose body is a function.
RuleFunction(fn) == <<<<"happy", "$X">>, <<fn>>>>

InferQueries ==
    {<<"happy", <<Str("alice")>>>>,
     <<"sad", <<Str("alice")>>>>,
     <<"ancestor", <<Str("bob"), Str("alice")>>>>,
     <<"ancestor", <<Str("carol"), Str("alice")>>>>,
     <<"ancestor", <<Str("$X"), Str("alice")>>>>}

NextInfer ==
    \/ \E x \in {"alice", "bob"} : HasA(x, "parent", IF x = "alice" THEN "bob" ELSE "carol")
    \/ \E rule \in {RuleDirect, RuleRecursive,
                    RuleFunction(FunctionTrue), RuleFunction(FunctionFalse)} :
           AddRule(rule)
    \/ \E q \in InferQueries : Infer(q[1], q[2])

\* One Reality is active; rules with string bodies and with function bodies
\* are registered and goals are inferred.
SpecInfer == InitCf /\ [][NextInfer]_vars

\* What query returns for the goal of the call just made.
DirectResult == query(EngineNow, last.before, last.goal, last.args, StackLimit).res

\* C23 as stated: infer returns query's result when query succeeds; when
\* query fails it returns a boolean, true only if a rule's head predicate is
\* the goal, and raises nothing, whether rule bodies are strings or functions.
C23_AsStated ==
    last.op = "infer"
    => /\ (DirectResult.kind # "throw" /\ DirectResult # RBool(FALSE)
           /\ DirectResult # RVal(Null))
          => last.res = DirectResult
       /\ (DirectResult = RBool(FALSE) \/ DirectResult = RVal(Null))
          => /\ last.res.kind = "bool"
             /\ last.res.b => \E i \in 1..Len(rules) : matchesRule(last.goal, rules[i][1])

-----------------------------------------------------------------------------
(* Claims about the bindings that unify leaves (SpecUnify) *)

\* The names of the variables that occur in a term, at any depth.
RECURSIVE VarsIn(_)
VarsIn(term) ==
    IF isVariable(term) THEN {VarName[term.s]}
    ELSE IF isList(term) THEN UNION {VarsIn(term.l[i]) : i \in 1..Len(term.l)}
    ELSE {}

\* The variables that occur in the value bound to the name v.
PointsTo(bindings, v) == IF Has(bindings, v) THEN VarsIn(Get(bindings, v)) ELSE {}

\* The names reached from those of S by following bindings.
RECURSIVE ReachVars(_, _)
ReachVars(bindings, S) ==
    LET T == S \cup UNION {PointsTo(bindings, v) : v \in S}
    IN  IF T = S THEN S ELSE ReachVars(bindings, T)

\* C24 as stated: after any sequence of unify calls in one environment no
\* variable is reached from itself by following bindings through variables
\* and list elements.
C24_AsStated ==
    \A i \in 1..Len(context.bindings) :
        context.bindings[i][1]
            \notin ReachVars(context.bindings,
                             PointsTo(context.bindings, context.bindings[i][1]))


\* C25 as stated: a unify call never replaces the value of a variable that
\* was bound when it was made: every name bound before the call is bound to
\* the same value after it, whether the call has succeeded or failed.
C25_AsStated ==
    last.op = "unify"
    => \A i \in 1..Len(last.before.bindings) :
           /\ Has(context.bindings, last.before.bindings[i][1])
           /\ Get(context.bindings, last.before.bindings[i][1])
                  = last.before.bindings[i][2]


-----------------------------------------------------------------------------
(* Claim about the states that one propagation leaves (SpecDag) *)

\* The number of causes and intervene calls made on one graph.
MaxDagCalls == 5

DagNodes == {"a", "b", "c", "d"}
\* The mechanisms that never return null.
TotalMechs == {"copy", "invert"}
\* Edges that follow the order a, b, c, d: a graph built of them has no cycle.
DagEdges == {<<"a", "b">>, <<"a", "c">>, <<"a", "d">>, <<"b", "c">>, <<"b", "d">>,
             <<"c", "d">>}

NextDag ==
    \/ \E e \in DagEdges, m \in TotalMechs : CausesWithin(MaxDagCalls, e[1], e[2], m)
    \/ \E n \in DagNodes, v \in Values : InterveneWithin(MaxDagCalls, n, v)

SpecDag == InitCf /\ [][NextDag]_vars

ChildrenOf(ed, S) ==
    UNION {IF x \in DOMAIN ed THEN {ed[x][i][1] : i \in 1..Len(ed[x])} ELSE {} : x \in S}

\* The nodes reachable from the nodes of S over one edge or more.
RECURSIVE Descendants(_, _)
Descendants(ed, S) ==
    LET T == S \cup ChildrenOf(ed, S) IN
    IF T = S THEN ChildrenOf(ed, S) ELSE Descendants(ed, T)

NoCycle(ed) == \A x \in DOMAIN ed : x \notin Descendants(ed, {x})

MechanismOf(ed, p, d) == ed[p][EdgeIndex(ed[p], d, 1)][2]

\* C26: after intervene(n, v) on an acyclic graph with no other intervention
\* and mechanisms that never return null, every node d reachable from n that
\* has exactly one parent p stores mechanism(p -> d)(getState(p)).
C26_AsStated ==
    [][\A n \in DagNodes, v \in Values :
          /\ InterveneWithin(MaxDagCalls, n, v)
          /\ CM.interventions = EmptyMap
          /\ NoCycle(CM.edges)
          /\ \A x \in DOMAIN CM.edges : \A i \in 1..Len(CM.edges[x]) :
                 CM.edges[x][i][2] \in TotalMechs
          => \A d \in Descendants(CM.edges, {n}) :
                 \A p \in DOMAIN CMNext.nodes :
                     CMNext.nodes[d].parents = {p}
                     => CMNext.nodes[d].state
                            = Apply(MechanismOf(CMNext.edges, p, d),
                                    getState(CMNext.nodes, CMNext.interventions, p))]_vars


-----------------------------------------------------------------------------
(* UnificationContext: choice points *)

\* new ChoicePoint(alternatives, bindings): the bindings are copied.
ChoicePoint(alternatives, bindings) ==
    [alternatives |-> alternatives, bindings |-> bindings]

addChoicePoint(ctx, alternatives) ==
    [ctx EXCEPT !.choicePoints = Append(@, ChoicePoint(alternatives, ctx.bindings))]

\* A backtrack that pops the choice point and keeps the current bindings.
backtrackKeepsBindings(ctx) ==
    IF Len(ctx.choicePoints) = 0 THEN [context |-> ctx, res |-> RBool(FALSE)]
    ELSE LET choice == ctx.choicePoints[Len(ctx.choicePoints)] IN
         [context |-> [ctx EXCEPT !.choicePoints = SubSeq(@, 1, Len(@) - 1)],
          res |-> IF Len(choice.alternatives) > 0
                  THEN RVal(Str(choice.alternatives[Len(choice.alternatives)]))
                  ELSE RVal(Null)]

\* backtrack: [context, res]; res is false, null or the alternative popped.
backtrack(ctx) ==
    IF Len(ctx.choicePoints) = 0 THEN [context |-> ctx, res |-> RBool(FALSE)]
    ELSE LET choice == ctx.choicePoints[Len(ctx.choicePoints)] IN
         [context |-> [ctx EXCEPT !.choicePoints = SubSeq(@, 1, Len(@) - 1),
                                  !.bindings = choice.bindings],
          res |-> IF Len(choice.alternatives) > 0
                  THEN RVal(Str(choice.alternatives[Len(choice.alternatives)]))
                  ELSE RVal(Null)]

\* bind(varName, value)
bind(ctx, varName, value) ==
    [ctx EXCEPT !.bindings = Put(@, IF startsWithDollar(varName) THEN VarName[varName]
                                     ELSE varName, value)]

-----------------------------------------------------------------------------
(* The choice points driven directly (SpecChoice) *)

\* The number of addChoicePoint, backtrack and bind calls.
MaxChoiceCalls == 5

Alternatives == {"alt1", "alt2"}
AlternativeLists ==
    {<<>>, <<"alt1">>, <<"alt2">>, <<"alt1", "alt2">>, <<"alt2", "alt1">>}
BindNames == {"$X", "Y"}
BindValues == {Term(Num(1)), Term(Str("a"))}

AddChoicePoint(alternatives) ==
    /\ asked < MaxChoiceCalls
    /\ context' = addChoicePoint(context, alternatives)
    /\ trail' = [trail EXCEPT !.recorded = @ \o alternatives,
                              !.snapshots = Append(@, context.bindings)]
    /\ last' = Called("addChoicePoint", "", <<>>, RVal(Null))
    /\ asked' = asked + 1
    /\ UNCHANGED <<frames, heap, realities, activeReality, knowledgeBase, rules, written,
                   writes, calls, causalVars>>

Backtrack ==
    /\ asked < MaxChoiceCalls
    /\ LET r == backtrack(context) IN
       /\ context' = r.context
       /\ last' = Called("backtrack", "", <<>>, r.res)
       /\ trail' = [trail EXCEPT
                      !.handed = IF r.res.kind = "value" /\ r.res.v # Null
                                 THEN Append(@, r.res.v.s) ELSE @,
                      !.snapshots = IF @ = <<>> THEN @ ELSE SubSeq(@, 1, Len(@) - 1)]
    /\ asked' = asked + 1
    /\ UNCHANGED <<frames, heap, realities, activeReality, knowledgeBase, rules, written,
                   writes, calls, causalVars>>

Bind(varName, value) ==
    /\ asked < MaxChoiceCalls
    /\ context' = bind(context, varName, value)
    /\ last' = Called("bind", "", <<>>, RVal(Null))
    /\ asked' = asked + 1
    /\ UNCHANGED <<frames, trail, heap, realities, activeReality, knowledgeBase, rules,
                   written, writes, calls, causalVars>>

NextChoice ==
    \/ \E alternatives \in AlternativeLists : AddChoicePoint(alternatives)
    \/ Backtrack
    \/ \E varName \in BindNames, value \in BindValues : Bind(varName, value)

SpecChoice == InitFacade /\ [][NextChoice]_vars

\* The number of times a occurs in the sequence s.
Occurrences(s, a) == Cardinality({i \in 1..Len(s) : s[i] = a})

\* C27: backtracking hands out every recorded alternative exactly once before
\* the stack is reported exhausted: no alternative is handed out more often than
\* it was recorded, and when backtrack() returns false every recorded
\* alternative has been handed out.
C27_AsStated ==
    /\ \A a \in Alternatives : Occurrences(trail.handed, a) <= Occurrences(trail.recorded, a)
    /\ (last.op = "backtrack" /\ last.res = RBool(FALSE))
       => \A a \in Alternatives :
              Occurrences(trail.handed, a) = Occurrences(trail.recorded, a)


\* C28: backtrack() on a non-empty stack replaces the bindings with the
\* bindings that were in force when the popped choice point was created,
\* whatever was bound since; on an empty stack it returns false and leaves
\* the bindings as they are.
C28_AsStated ==
    [][Backtrack
       => IF context.choicePoints # <<>>
          THEN context'.bindings = trail.snapshots[Len(trail.snapshots)]
          ELSE last'.res = RBool(FALSE) /\ context'.bindings = context.bindings]_vars

\* A backtrack has popped a choice point created under bindings that had
\* since been added to and changed, and has put those bindings back.
C28_Witness ==
    /\ last.op = "backtrack"
    /\ last.before.choicePoints # <<>>
    /\ context.bindings # <<>>
    /\ \E i \in 1..Len(last.before.bindings) :
           /\ Has(context.bindings, last.before.bindings[i][1])
           /\ Get(context.bindings, last.before.bindings[i][1]) # last.before.bindings[i][2]
    /\ \E i \in 1..Len(last.before.bindings) :
           ~Has(context.bindings, last.before.bindings[i][1])


-----------------------------------------------------------------------------
(* Claim about the solutions one query records (SpecDistinct) *)

\* Rules with one grounding each, whose value a built-in predicate produces.
RuleThree == <<<<"three", "$Z">>, <<FunctionAdd>>>>
RulePair == <<<<"pair", "$T">>, <<FunctionCons>>>>
RuleDouble == <<<<"double", "$X", "$Y">>, <<FunctionDouble>>>>

DistinctQueries ==
    {<<"three", <<Str("$Z")>>>>,
     <<"pair", <<Str("$T")>>>>,
     <<"double", <<Num(5), Str("$Y")>>>>}

NextDistinct ==
    \/ \E rule \in {RuleThree, RulePair, RuleDouble} : AddRule(rule)
    \/ \E q \in DistinctQueries : QueryEnter(q[1], q[2])
    \/ QuerySolution
    \/ QueryReturn

SpecDistinct == InitCf /\ [][NextDistinct]_vars

\* Two solutions are the same binding set: the same keys, mapped to values
\* that hold the same.
SameBindingSet(sol1, sol2) ==
    /\ Len(sol1) = Len(sol2)
    /\ \A i \in 1..Len(sol1) :
           /\ Has(sol2, sol1[i][1])
           /\ ValueOf(Get(sol2, sol1[i][1])) = ValueOf(sol1[i][2])

PairwiseDistinct(results) ==
    \A i, j \in 1..Len(results) : i < j => ~SameBindingSet(results[i], results[j])

\* C29: the solutions that a query has recorded are pairwise distinct as
\* binding sets, while it searches and in what it returns, also when their
\* values are numbers or lists that a built-in predicate produced inside a
\* rule body; the search for a rule with one grounding stops and does not
\* run into the limit on solutions.
C29_AsStated ==
    /\ \A f \in 1..Len(frames) : PairwiseDistinct(frames[f].results)
    /\ last.op = "query"
       => /\ last.res.kind = "list" => PairwiseDistinct(last.res.l)
          /\ last.res # RThrow("Maximum number of solutions exceeded")


-----------------------------------------------------------------------------
(* Claim about the order of the pending interventions (SpecCf) *)

\* The pending Maps that hold the entries of pending in another order.
Reorderings(pending) ==
    {[i \in 1..Len(pending) |-> pending[f[i]]] :
        f \in {g \in [1..Len(pending) -> 1..Len(pending)] :
                  \A i, j \in 1..Len(pending) : g[i] = g[j] => i = j}}

\* C30: the effects that compute() returns do not depend on the order in
\* which the pending interventions were added: the same pairs added in any
\* other order give the same effects, also when two of the intervened
\* variables share a child.
C30_AsStated ==
    (lastCf.called /\ ~lastCf.threw)
    => \A other \in Reorderings(lastCf.pending) :
           ~compute(lastCf.before, other).threw
           => compute(lastCf.before, other).effects = lastCf.effects


-----------------------------------------------------------------------------
(* Claim about a live intervene that raises (SpecCf) *)

\* C31: when intervene(n, v), made outside any counterfactual, raises a
\* domain error during its propagation, the causal model is as it was before
\* the call: no intervention on n is recorded and no stored state has changed.
C31_AsStated ==
    [][\A n \in NodeNames, v \in Values :
          (Intervene(n, v) /\ intervene(CM.nodes, CM.edges, CM.interventions, n, v).threw)
          => CMNext = CM]_vars


-----------------------------------------------------------------------------
(* Claim about edges into an intervened node (SpecProp) *)

\* The targets of the outgoing edges of node n.
TargetsOf(ed, n) ==
    IF n \in DOMAIN ed THEN {ed[n][i][1] : i \in 1..Len(ed[n])} ELSE {}

\* C32: when an iteration of the propagation walks the edges of a node, an
\* edge whose target is under an active intervention is not applied: the
\* stored state of that target stays as it is and the target is not put on
\* the queue.
C32_InterventionShields ==
    [][PropagateStep
       => \A t \in TargetsOf(CM.edges, Head(queue)) \cap DOMAIN CM.interventions :
              /\ CMNext.nodes[t].state = CM.nodes[t].state
              /\ Occurrences(queue', t) <= Occurrences(Tail(queue), t)]_vars

\* The edges of a node have been walked during a propagation, one of them
\* has an intervened target, and its mechanism gives a state other than
\* the one that target stores.
C32_Witness ==
    /\ pc = "propagate"
    /\ \E n \in visited :
           /\ applied[n] >= 1
           /\ n \in DOMAIN CM.edges
           /\ \E i \in 1..Len(CM.edges[n]) :
                  /\ CM.edges[n][i][1] \in DOMAIN CM.interventions
                  /\ CM.edges[n][i][1] # n
                  /\ Apply(CM.edges[n][i][2], getState(CM.nodes, CM.interventions, n))
                         \notin {NULL, CM.nodes[CM.edges[n][i][1]].state}


-----------------------------------------------------------------------------
(* Claim about edges and the parent and child sets (SpecGraph) *)

MaxGraphCalls == 3

Defaults == Values \cup {NULL}

Spaces == Domains \cup {NoStateSpace}

\* causalModel.addNode(name, defaultState, stateSpace) called on the model
\* of the active reality.
AddNode(name, defaultState, space) ==
    /\ CanCallWithin(MaxGraphCalls)
    /\ heap' = SetCM([CM EXCEPT !.nodes = addNode(@, name, defaultState, space)])
    /\ calls' = calls + 1
    /\ UNCHANGED <<frames, trail, realities, activeReality, knowledgeBase, queue, visited, pc,
                   applied, lastCf, engineVars, written, writes>>

NextGraph ==
    \/ \E v \in NodeNames, d \in Domains : StateSpace(v, d)
    \/ \E c \in NodeNames, e \in NodeNames, m \in Mechs : CausesWithin(MaxGraphCalls, c, e, m)
    \/ \E v \in NodeNames, s \in Values : AssertState(v, s)
    \/ \E v \in NodeNames, s \in Values : InterveneWithin(MaxGraphCalls, v, s)
    \/ \E n \in NodeNames, d \in Defaults, s \in Spaces : AddNode(n, d, s)

SpecGraph == InitCf /\ [][NextGraph]_vars

HasEdge(ed, c, e) == c \in DOMAIN ed /\ EdgeIndex(ed[c], e, 1) # 0

\* C33: after any sequence of addNode, addCause, stateSpace, assert and
\* intervene, both endpoints of every edge are nodes, and an edge c->e
\* exists exactly when e is a child of c and exactly when c is a parent of e.
C33_AsStated ==
    /\ \A c \in DOMAIN CM.edges :
           /\ c \in DOMAIN CM.nodes
           /\ TargetsOf(CM.edges, c) \subseteq DOMAIN CM.nodes
    /\ \A c \in DOMAIN CM.nodes, e \in DOMAIN CM.nodes :
           /\ HasEdge(CM.edges, c, e) <=> e \in CM.nodes[c].children
           /\ HasEdge(CM.edges, c, e) <=> c \in CM.nodes[e].parents


-----------------------------------------------------------------------------
(* Claim about hasA queries with a variable (SpecPattern) *)

PatternEntities == {"alice", "bob"}

PatternProperties == {"parent", "age"}

PatternQueries ==
    {<<Str("$X"), Str(p)>> : p \in PatternProperties}
    \cup {<<Str(e), Str("$Y")>> : e \in PatternEntities}
    \cup {<<Str(e), Str(p)>> : e \in PatternEntities, p \in PatternProperties}

NextPattern ==
    \/ \E e \in PatternEntities, p \in PatternProperties : HasA(e, p, "carol")
    \/ \E args \in PatternQueries : Query("hasA", args)

\* One Reality is active; hasA facts are stored and queried with and
\* without a variable among the arguments.
SpecPattern == InitCf /\ [][NextPattern]_vars

\* The bindings that pattern-matching the key of the query against the
\* stored fact keys gives, one for each stored hasA fact that matches.
MatchingFacts(kb, args) ==
    {matchPattern(<<"hasA", args[1].s, args[2].s>>, kb[i][1]).bindings :
        i \in {j \in 1..Len(kb) :
                  /\ kb[j][1][1] = "hasA"
                  /\ matchPattern(<<"hasA", args[1].s, args[2].s>>, kb[j][1]).ok}}

\* The bindings a result carries.
AnswersOf(res) ==
    IF res.kind = "map" THEN {res.m}
    ELSE IF res.kind = "list" THEN Elems(res.l)
    ELSE {}

\* C34: a hasA query with a variable in an argument position returns one
\* binding for each stored hasA fact whose key matches the pattern, the
\* variable bound to the key segment at its position.
C34_AsStated ==
    (/\ last.op = "query"
     /\ last.goal = "hasA"
     /\ \E i \in 1..Len(last.args) : isVariable(last.args[i]))
    => AnswersOf(last.res) = MatchingFacts(knowledgeBase, last.args)


-----------------------------------------------------------------------------
(* Claim about a rule whose body names another rule (SpecSubgoal) *)

\* parentOf(X, Y) holds when Y has parent X; elder(X, Y) holds when
\* parentOf(X, Y) does.
RuleParentOf == <<<<"parentOf", "$X", "$Y">>, <<<<"hasA", "$Y", "parent", "$X">>>>>>
RuleElder == <<<<"elder", "$X", "$Y">>, <<<<"parentOf", "$X", "$Y">>>>>>

SubgoalPeople == {"alice", "bob"}

NextSubgoal ==
    \/ \E x, y \in SubgoalPeople : HasA(x, "parent", y)
    \/ \E rule \in {RuleParentOf, RuleElder} : AddRule(rule)
    \/ \E g \in {"parentOf", "elder"}, x, y \in SubgoalPeople :
           Query(g, <<Str(x), Str(y)>>)

\* One Reality is active; parent facts and the two rules are written and
\* both rules are queried.
SpecSubgoal == InitCf /\ [][NextSubgoal]_vars

\* C35: a sub-goal in a rule body that names another user-defined rule is
\* resolved by resolving that rule with the current bindings: the condition,
\* and so the rule that has only this condition, succeeds exactly when that
\* other rule is derivable.
C35_AsStated ==
    (/\ last.op = "query"
     /\ last.goal = "elder"
     /\ Has(rules, RuleElder[1])
     /\ Has(rules, RuleParentOf[1]))
    => (last.res = RBool(TRUE)
        <=> query(EngineNow, last.before, "parentOf", last.args, StackLimit).res = RBool(TRUE))


-----------------------------------------------------------------------------
(* Claim about compute and the live interventions (SpecCf) *)

\* C36: the effects compute() captures do not depend on the live
\* interventions: the causal model with the same nodes, stored states and
\* edges and no live intervention gives the same effects for the same
\* pending interventions, so any two models that differ in their live
\* interventions only give the same effects.
C36_EffectsIgnoreLive ==
    lastCf.called
    => compute([lastCf.before EXCEPT !.interventions = EmptyMap], lastCf.pending).effects
           = lastCf.effects

\* A compute that succeeded on a model with a live intervention on a node
\* the counterfactual does not intervene on, and captured for that node a
\* state other than the live forced value.
C36_Witness ==
    /\ lastCf.called
    /\ ~lastCf.threw
    /\ \E n \in DOMAIN lastCf.before.interventions :
           /\ \A i \in 1..Len(lastCf.pending) : lastCf.pending[i][1] # n
           /\ n \in DOMAIN lastCf.effects
           /\ lastCf.effects[n] # lastCf.before.interventions[n]


-----------------------------------------------------------------------------
(* Claim about constrained variables (SpecConstraint) *)

\* new Variable(name): unbound, no constraint.  A constraint is kept as the
\* pair of the operator and the value of its MathConstraint.
createVariable(name) ==
    [k |-> "variable", s |-> name, n |-> 0, l |-> <<>>, t |-> FALSE, ast |-> FALSE,
     constraints |-> <<>>]

\* MathConstraint.evaluate on a number.
evaluate(constraint, x) ==
    CASE constraint[1] = ">" -> x > constraint[2]
      [] constraint[1] = "<" -> x < constraint[2]
      [] constraint[1] = "=" -> x = constraint[2]
      [] OTHER -> FALSE

\* Variable._satisfiesConstraints
satisfiesConstraints(variable, value) ==
    \A i \in 1..Len(variable.constraints) : evaluate(variable.constraints[i], value)

\* PrologScript.addConstraint: the Variable is kept in the bindings of the
\* current context under the name of the variable.
addConstraint(ctx, varName, operator, value) ==
    LET found == Has(ctx.bindings, varName) /\ Get(ctx.bindings, varName).k = "variable"
        variable == IF found THEN Get(ctx.bindings, varName) ELSE createVariable(varName)
    IN  [ctx EXCEPT !.bindings =
            Put(@, varName,
                [variable EXCEPT !.constraints = Append(@, <<operator, value>>)])]

MaxConstraints == 2

Operators == {">", "<", "="}

ConstraintValues == {0, 1, 2}

AddConstraint(varName, operator, value) ==
    /\ Idle
    /\ calls < MaxConstraints
    /\ context' = addConstraint(context, varName, operator, value)
    /\ calls' = calls + 1
    /\ last' = NoCall
    /\ UNCHANGED <<frames, trail, heap, realities, activeReality, knowledgeBase, rules, written,
                   writes, asked, causalVars>>

NextConstraint ==
    \/ \E op \in Operators, v \in ConstraintValues : AddConstraint("X", op, v)
    \/ \E v \in ConstraintValues : Query("head", <<Lst(<<Num(v)>>), Str("$X")>>)

\* One Reality is active; constraints are put on X and X is bound by the
\* head predicate to the first element of a list.
SpecConstraint == InitCf /\ [][NextConstraint]_vars

\* C37: a variable that carries constraints is never bound to a value that
\* violates one of them: a query that would bind X, by unification, to such
\* a value fails.
C37_AsStated ==
    (/\ last.op = "query"
     /\ last.goal = "head"
     /\ Has(last.before.bindings, "X")
     /\ Get(last.before.bindings, "X").k = "variable"
     /\ ~satisfiesConstraints(Get(last.before.bindings, "X"), last.args[1].l[1].n))
    => last.res = RBool(FALSE)


-----------------------------------------------------------------------------
(* Claim about the depth counter of the current context (SpecQuery) *)

\* C38: after any sequence of queries, the depth counter of the current
\* context is never negative and never above maxDepth, and it is 0 whenever
\* no query is in progress.
C38_AsStated ==
    /\ context.depth >= 0
    /\ context.depth <= maxDepth
    /\ frames = <<>> => context.depth = 0


-----------------------------------------------------------------------------
(* Claim about the active Reality and the reality table (SpecReality) *)

\* C39: after any sequence of createReality and switchReality calls, the
\* active Reality, when there is one, is the Reality that the reality
\* table registers under its name.
C39_AsStated ==
    activeReality # NoReality
    => /\ heap[activeReality].name \in DOMAIN realities
       /\ realities[heap[activeReality].name] = activeReality


-----------------------------------------------------------------------------
(* Claim about goals that name facade operations (SpecMethods) *)

MaxMethodQueries == 2

\* Operations of the facade that were never registered with predicate().
FacadeMethods == {"createReality", "switchReality", "addRule"}

\* typeof this[goal] === 'function' holds for every method of the facade.
isFunctionProperty(goal) == goal \in PredicateNames \cup FacadeMethods

\* query(goal, ...args) with a goal that names a facade method: the predicate
\* path calls this[goal](...args) between incrementDepth and decrementDepth.
\* For addRule, args is the rule: its head and its body.
QueryMethod(goal, args) ==
    /\ Idle
    /\ isFunctionProperty(goal)
    /\ goal \in FacadeMethods
    /\ asked < MaxMethodQueries
    /\ asked' = asked + 1
    /\ IF activeReality = NoReality
       THEN /\ last' = Called("query", goal, args, RThrow("No active reality"))
            /\ UNCHANGED <<heap, realities, activeReality, rules, written, writes>>
       ELSE IF context.depth >= maxDepth
       THEN /\ last' = Called("query", goal, args, RThrow("Maximum recursion depth exceeded"))
            /\ UNCHANGED <<heap, realities, activeReality, rules, written, writes>>
       ELSE CASE goal = "createReality" ->
                 /\ Len(heap) < MaxRealities
                 /\ heap' = Append(heap, NewReality(args[1]))
                 /\ realities' = MapSet(realities, args[1], Len(heap) + 1)
                 /\ activeReality' = createReality(activeReality, Len(heap) + 1)
                 /\ written' = Append(written,
                                      [by |-> NothingWritten,
                                       others |-> [kb |-> knowledgeBase, rules |-> rules]])
                 /\ last' = Called("query", goal, args,
                                   IF Len(context.bindings) > 0 THEN RMap(context.bindings)
                                   ELSE RVal(Str(args[1])))
                 /\ UNCHANGED <<rules, writes>>
              [] goal = "switchReality" ->
                 /\ activeReality' = switchReality(realities, activeReality, args[1])
                 /\ last' = Called("query", goal, args,
                                   IF switchRealityReturns(realities, args[1])
                                      /\ Len(context.bindings) > 0
                                   THEN RMap(context.bindings)
                                   ELSE RBool(switchRealityReturns(realities, args[1])))
                 /\ UNCHANGED <<heap, realities, rules, written, writes>>
              [] goal = "addRule" ->
                 /\ writes < MaxWrites
                 /\ rules' = addRule(rules, args[1], args[2])
                 /\ written' = Record("addRule", args)
                 /\ writes' = writes + 1
                 /\ last' = Called("query", goal, args, RVal(Undef))
                 /\ UNCHANGED <<heap, realities, activeReality>>
    /\ UNCHANGED <<frames, trail, knowledgeBase, context, calls, causalVars>>

MethodCalls ==
    {<<"createReality", <<name>>>> : name \in RealityNames}
    \cup {<<"switchReality", <<name>>>> : name \in RealityNames}
    \cup {<<"addRule", rule>> : rule \in {RuleDirect, RuleRecursive}}

NextMethods ==
    \/ \E name \in RealityNames : CreateReality(name)
    \/ \E name \in RealityNames : SwitchReality(name)
    \/ \E rule \in {RuleDirect, RuleRecursive} : AddRule(rule)
    \/ \E q \in MethodCalls : QueryMethod(q[1], q[2])

\* Realities are created and switched and rules added, directly and as the
\* goal of a query.
SpecMethods == InitFacade /\ [][NextMethods]_vars

\* C40: a query whose goal names a facade operation that was never
\* registered as a predicate does not execute it: the reality table, the
\* rule set and the active Reality are as they were before the query.
C40_AsStated ==
    [][\A q \in MethodCalls :
          QueryMethod(q[1], q[2]) => UNCHANGED <<realities, rules, activeReality>>]_vars

=============================================================================
